---------------------------- MODULE Spec2Model ----------------------------
(***************************************************************************)
(* A model of the NES emulation kernel: the 6502 interpreter (src/cpu),   *)
(* the picture processor (src/ppu), the bus/clock synchronizer            *)
(* (src/bus.rs) and the cartridge (src/cartridge.rs, src/mapper).         *)
(*                                                                         *)
(* Bytes and words are naturals kept to their width with % 256 and        *)
(* % 65536.  The large arrays (RAM, PRG-ROM, CHR, nametables) are sparse  *)
(* functions that hold the bytes differing from the array's initial 0.    *)
(***************************************************************************)
EXTENDS Integers, Sequences, FiniteSets, TLC

(***************************************************************************)
(* Fixed-width helpers (src/lib.rs and Rust's integer operators).          *)
(***************************************************************************)
Pow2(n) == 2 ^ n

\* (byte >> index & 1) != 0
is_bit_set(byte, index) == ((byte \div Pow2(index)) % 2) = 1

\* (high as u16) << 8 | low as u16
concat_bytes(low, high) == high * 256 + low

\* word as u8
low_byte(word) == word % 256

\* (word >> 8) as u8
high_byte(word) == (word \div 256) % 256

RECURSIVE BitAnd(_, _, _)
BitAnd(a, b, n) ==
    IF n = 0 THEN 0
    ELSE (a % 2) * (b % 2) + 2 * BitAnd(a \div 2, b \div 2, n - 1)

RECURSIVE BitOr(_, _, _)
BitOr(a, b, n) ==
    IF n = 0 THEN 0
    ELSE (IF (a % 2) + (b % 2) > 0 THEN 1 ELSE 0)
         + 2 * BitOr(a \div 2, b \div 2, n - 1)

RECURSIVE BitXor(_, _, _)
BitXor(a, b, n) ==
    IF n = 0 THEN 0
    ELSE ((a + b) % 2) + 2 * BitXor(a \div 2, b \div 2, n - 1)

And8(a, b) == BitAnd(a, b, 8)
Or8(a, b) == BitOr(a, b, 8)
Xor8(a, b) == BitXor(a, b, 8)

\* u8 as i8 as i16: the signed value of a byte
AsSigned8(b) == IF b >= 128 THEN b - 256 ELSE b

Wrap8(v) == v % 256
Wrap16(v) == v % 65536

BoolBit(b) == IF b THEN 1 ELSE 0

\* A sparse memory: the bytes that differ from the array's initial 0.
Peek(mem, addr) == IF addr \in DOMAIN mem THEN mem[addr] ELSE 0

(***************************************************************************)
(* CpuInstruction::decode (src/cpu/cpu_instruction.rs).  Unmapped stands   *)
(* for the unimplemented!() arm, where decode does not return.             *)
(***************************************************************************)
Unmapped == <<"unimplemented", "unimplemented">>

\* The arms above the "Illegal opcodes" comment.
LegalArm(opcode) ==
    CASE opcode = 0 -> <<"Brk", "Implicit">>
      [] opcode = 1 -> <<"Ora", "IndexedIndirect">>
      [] opcode = 5 -> <<"Ora", "ZeroPage">>
      [] opcode = 6 -> <<"Asl", "ZeroPage">>
      [] opcode = 8 -> <<"Php", "Implicit">>
      [] opcode = 9 -> <<"Ora", "Immediate">>
      [] opcode = 10 -> <<"Asl", "Accumulator">>
      [] opcode = 13 -> <<"Ora", "Absolute">>
      [] opcode = 14 -> <<"Asl", "Absolute">>
      [] opcode = 16 -> <<"Bpl", "Relative">>
      [] opcode = 17 -> <<"Ora", "IndirectIndexed">>
      [] opcode = 21 -> <<"Ora", "ZeroPageX">>
      [] opcode = 22 -> <<"Asl", "ZeroPageX">>
      [] opcode = 24 -> <<"Clc", "Implicit">>
      [] opcode = 25 -> <<"Ora", "AbsoluteY">>
      [] opcode = 29 -> <<"Ora", "AbsoluteX">>
      [] opcode = 30 -> <<"Asl", "AbsoluteX">>
      [] opcode = 32 -> <<"Jsr", "Absolute">>
      [] opcode = 33 -> <<"And", "IndexedIndirect">>
      [] opcode = 36 -> <<"Bit", "ZeroPage">>
      [] opcode = 37 -> <<"And", "ZeroPage">>
      [] opcode = 38 -> <<"Rol", "ZeroPage">>
      [] opcode = 40 -> <<"Plp", "Implicit">>
      [] opcode = 41 -> <<"And", "Immediate">>
      [] opcode = 42 -> <<"Rol", "Accumulator">>
      [] opcode = 44 -> <<"Bit", "Absolute">>
      [] opcode = 45 -> <<"And", "Absolute">>
      [] opcode = 46 -> <<"Rol", "Absolute">>
      [] opcode = 48 -> <<"Bmi", "Relative">>
      [] opcode = 49 -> <<"And", "IndirectIndexed">>
      [] opcode = 53 -> <<"And", "ZeroPageX">>
      [] opcode = 54 -> <<"Rol", "ZeroPageX">>
      [] opcode = 56 -> <<"Sec", "Implicit">>
      [] opcode = 57 -> <<"And", "AbsoluteY">>
      [] opcode = 61 -> <<"And", "AbsoluteX">>
      [] opcode = 62 -> <<"Rol", "AbsoluteX">>
      [] opcode = 64 -> <<"Rti", "Implicit">>
      [] opcode = 65 -> <<"Eor", "IndexedIndirect">>
      [] opcode = 69 -> <<"Eor", "ZeroPage">>
      [] opcode = 70 -> <<"Lsr", "ZeroPage">>
      [] opcode = 72 -> <<"Pha", "Implicit">>
      [] opcode = 73 -> <<"Eor", "Immediate">>
      [] opcode = 74 -> <<"Lsr", "Accumulator">>
      [] opcode = 76 -> <<"Jmp", "Absolute">>
      [] opcode = 77 -> <<"Eor", "Absolute">>
      [] opcode = 78 -> <<"Lsr", "Absolute">>
      [] opcode = 80 -> <<"Bvc", "Relative">>
      [] opcode = 81 -> <<"Eor", "IndirectIndexed">>
      [] opcode = 85 -> <<"Eor", "ZeroPageX">>
      [] opcode = 86 -> <<"Lsr", "ZeroPageX">>
      [] opcode = 88 -> <<"Cli", "Implicit">>
      [] opcode = 89 -> <<"Eor", "AbsoluteY">>
      [] opcode = 93 -> <<"Eor", "AbsoluteX">>
      [] opcode = 94 -> <<"Lsr", "AbsoluteX">>
      [] opcode = 96 -> <<"Rts", "Implicit">>
      [] opcode = 97 -> <<"Adc", "IndexedIndirect">>
      [] opcode = 101 -> <<"Adc", "ZeroPage">>
      [] opcode = 102 -> <<"Ror", "ZeroPage">>
      [] opcode = 104 -> <<"Pla", "Implicit">>
      [] opcode = 105 -> <<"Adc", "Immediate">>
      [] opcode = 106 -> <<"Ror", "Accumulator">>
      [] opcode = 108 -> <<"Jmp", "Indirect">>
      [] opcode = 109 -> <<"Adc", "Absolute">>
      [] opcode = 110 -> <<"Ror", "Absolute">>
      [] opcode = 112 -> <<"Bvs", "Relative">>
      [] opcode = 113 -> <<"Adc", "IndirectIndexed">>
      [] opcode = 117 -> <<"Adc", "ZeroPageX">>
      [] opcode = 118 -> <<"Ror", "ZeroPageX">>
      [] opcode = 120 -> <<"Sei", "Implicit">>
      [] opcode = 121 -> <<"Adc", "AbsoluteY">>
      [] opcode = 125 -> <<"Adc", "AbsoluteX">>
      [] opcode = 126 -> <<"Ror", "AbsoluteX">>
      [] opcode = 129 -> <<"Sta", "IndexedIndirect">>
      [] opcode = 132 -> <<"Sty", "ZeroPage">>
      [] opcode = 133 -> <<"Sta", "ZeroPage">>
      [] opcode = 134 -> <<"Stx", "ZeroPage">>
      [] opcode = 136 -> <<"Dey", "Implicit">>
      [] opcode = 138 -> <<"Txa", "Implicit">>
      [] opcode = 140 -> <<"Sty", "Absolute">>
      [] opcode = 141 -> <<"Sta", "Absolute">>
      [] opcode = 142 -> <<"Stx", "Absolute">>
      [] opcode = 144 -> <<"Bcc", "Relative">>
      [] opcode = 145 -> <<"Sta", "IndirectIndexed">>
      [] opcode = 148 -> <<"Sty", "ZeroPageX">>
      [] opcode = 149 -> <<"Sta", "ZeroPageX">>
      [] opcode = 150 -> <<"Stx", "ZeroPageY">>
      [] opcode = 152 -> <<"Tya", "Implicit">>
      [] opcode = 153 -> <<"Sta", "AbsoluteY">>
      [] opcode = 154 -> <<"Txs", "Implicit">>
      [] opcode = 157 -> <<"Sta", "AbsoluteX">>
      [] opcode = 160 -> <<"Ldy", "Immediate">>
      [] opcode = 161 -> <<"Lda", "IndexedIndirect">>
      [] opcode = 162 -> <<"Ldx", "Immediate">>
      [] opcode = 164 -> <<"Ldy", "ZeroPage">>
      [] opcode = 165 -> <<"Lda", "ZeroPage">>
      [] opcode = 166 -> <<"Ldx", "ZeroPage">>
      [] opcode = 168 -> <<"Tay", "Implicit">>
      [] opcode = 169 -> <<"Lda", "Immediate">>
      [] opcode = 170 -> <<"Tax", "Implicit">>
      [] opcode = 172 -> <<"Ldy", "Absolute">>
      [] opcode = 173 -> <<"Lda", "Absolute">>
      [] opcode = 174 -> <<"Ldx", "Absolute">>
      [] opcode = 176 -> <<"Bcs", "Relative">>
      [] opcode = 177 -> <<"Lda", "IndirectIndexed">>
      [] opcode = 180 -> <<"Ldy", "ZeroPageX">>
      [] opcode = 181 -> <<"Lda", "ZeroPageX">>
      [] opcode = 182 -> <<"Ldx", "ZeroPageY">>
      [] opcode = 184 -> <<"Clv", "Implicit">>
      [] opcode = 185 -> <<"Lda", "AbsoluteY">>
      [] opcode = 186 -> <<"Tsx", "Implicit">>
      [] opcode = 188 -> <<"Ldy", "AbsoluteX">>
      [] opcode = 189 -> <<"Lda", "AbsoluteX">>
      [] opcode = 190 -> <<"Ldx", "AbsoluteY">>
      [] opcode = 192 -> <<"Cpy", "Immediate">>
      [] opcode = 193 -> <<"Cmp", "IndexedIndirect">>
      [] opcode = 196 -> <<"Cpy", "ZeroPage">>
      [] opcode = 197 -> <<"Cmp", "ZeroPage">>
      [] opcode = 198 -> <<"Dec", "ZeroPage">>
      [] opcode = 200 -> <<"Iny", "Implicit">>
      [] opcode = 201 -> <<"Cmp", "Immediate">>
      [] opcode = 202 -> <<"Dex", "Implicit">>
      [] opcode = 204 -> <<"Cpy", "Absolute">>
      [] opcode = 205 -> <<"Cmp", "Absolute">>
      [] opcode = 206 -> <<"Dec", "Absolute">>
      [] opcode = 208 -> <<"Bne", "Relative">>
      [] opcode = 209 -> <<"Cmp", "IndirectIndexed">>
      [] opcode = 213 -> <<"Cmp", "ZeroPageX">>
      [] opcode = 214 -> <<"Dec", "ZeroPageX">>
      [] opcode = 216 -> <<"Cld", "Implicit">>
      [] opcode = 217 -> <<"Cmp", "AbsoluteY">>
      [] opcode = 221 -> <<"Cmp", "AbsoluteX">>
      [] opcode = 222 -> <<"Dec", "AbsoluteX">>
      [] opcode = 224 -> <<"Cpx", "Immediate">>
      [] opcode = 225 -> <<"Sbc", "IndexedIndirect">>
      [] opcode = 228 -> <<"Cpx", "ZeroPage">>
      [] opcode = 229 -> <<"Sbc", "ZeroPage">>
      [] opcode = 230 -> <<"Inc", "ZeroPage">>
      [] opcode = 232 -> <<"Inx", "Implicit">>
      [] opcode = 233 -> <<"Sbc", "Immediate">>
      [] opcode = 234 -> <<"Nop", "Implicit">>
      [] opcode = 236 -> <<"Cpx", "Absolute">>
      [] opcode = 237 -> <<"Sbc", "Absolute">>
      [] opcode = 238 -> <<"Inc", "Absolute">>
      [] opcode = 240 -> <<"Beq", "Relative">>
      [] opcode = 241 -> <<"Sbc", "IndirectIndexed">>
      [] opcode = 245 -> <<"Sbc", "ZeroPageX">>
      [] opcode = 246 -> <<"Inc", "ZeroPageX">>
      [] opcode = 248 -> <<"Sed", "Implicit">>
      [] opcode = 249 -> <<"Sbc", "AbsoluteY">>
      [] opcode = 253 -> <<"Sbc", "AbsoluteX">>
      [] opcode = 254 -> <<"Inc", "AbsoluteX">>
      [] OTHER -> Unmapped

\* The arms below the "Illegal opcodes" comment.
IllegalArm(opcode) ==
    CASE opcode = 4 -> <<"Nop", "ZeroPage">>
      [] opcode = 12 -> <<"Nop", "Absolute">>
      [] opcode = 20 -> <<"Nop", "ZeroPageX">>
      [] opcode = 26 -> <<"Nop", "Implicit">>
      [] opcode = 28 -> <<"Nop", "AbsoluteX">>
      [] opcode = 52 -> <<"Nop", "ZeroPageX">>
      [] opcode = 58 -> <<"Nop", "Implicit">>
      [] opcode = 60 -> <<"Nop", "AbsoluteX">>
      [] opcode = 68 -> <<"Nop", "ZeroPage">>
      [] opcode = 84 -> <<"Nop", "ZeroPageX">>
      [] opcode = 90 -> <<"Nop", "Implicit">>
      [] opcode = 92 -> <<"Nop", "AbsoluteX">>
      [] opcode = 100 -> <<"Nop", "ZeroPage">>
      [] opcode = 116 -> <<"Nop", "ZeroPageX">>
      [] opcode = 122 -> <<"Nop", "Implicit">>
      [] opcode = 124 -> <<"Nop", "AbsoluteX">>
      [] opcode = 128 -> <<"Nop", "Immediate">>
      [] opcode = 130 -> <<"Nop", "Immediate">>
      [] opcode = 131 -> <<"Sax", "IndexedIndirect">>
      [] opcode = 135 -> <<"Sax", "ZeroPage">>
      [] opcode = 137 -> <<"Nop", "Immediate">>
      [] opcode = 143 -> <<"Sax", "Absolute">>
      [] opcode = 151 -> <<"Sax", "ZeroPageY">>
      [] opcode = 163 -> <<"Lax", "IndexedIndirect">>
      [] opcode = 167 -> <<"Lax", "ZeroPage">>
      [] opcode = 175 -> <<"Lax", "Absolute">>
      [] opcode = 179 -> <<"Lax", "IndirectIndexed">>
      [] opcode = 183 -> <<"Lax", "ZeroPageY">>
      [] opcode = 191 -> <<"Lax", "AbsoluteY">>
      [] opcode = 194 -> <<"Nop", "Immediate">>
      [] opcode = 212 -> <<"Nop", "ZeroPageX">>
      [] opcode = 218 -> <<"Nop", "Implicit">>
      [] opcode = 220 -> <<"Nop", "AbsoluteX">>
      [] opcode = 226 -> <<"Nop", "Immediate">>
      [] opcode = 235 -> <<"Usbc", "Immediate">>
      [] opcode = 244 -> <<"Nop", "ZeroPageX">>
      [] opcode = 250 -> <<"Nop", "Implicit">>
      [] opcode = 252 -> <<"Nop", "AbsoluteX">>
      [] OTHER -> Unmapped

\* The whole match, evaluated once for the 256 opcode bytes.
OpcodeTable ==
    [opcode \in 0..255 |->
        IF LegalArm(opcode) # Unmapped THEN LegalArm(opcode)
        ELSE IllegalArm(opcode)]

\* the opcodes of the arms above the "Illegal opcodes" line of decode
DocumentedOpcodes == {opcode \in 0..255 : LegalArm(opcode) # Unmapped}

\* decode with every addressing mode read as Implicit
decode_without_mode(opcode) == <<OpcodeTable[opcode][1], "Implicit">>

CpuInstruction_decode(opcode) == OpcodeTable[opcode]

(***************************************************************************)
(* The machine.  Operators below take the whole machine m = [cpu, bus,     *)
(* ppu, cart, trap, ret, obs] and return the machine after the call; m.ret *)
(* carries the value a Rust function returns and m.obs counts the calls    *)
(* made during one step, for the properties to read.  A read of the bus is *)
(* split in two operators translated from the same function: the byte it   *)
(* returns and the machine it leaves behind.                               *)
(***************************************************************************)
VARIABLES cpu, bus, ppu, cart, trap

\* e with x naming the value v, written With(v, LAMBDA x : e)
With(v, F(_)) == F(v)

Ret(m, v) == [m EXCEPT !.ret = v]

\* Nothing observed yet: the calls of Ppu::clock, Cpu::clock and Cpu::nmi, the
\* NMI requests the Ppu raised, its vblank entries, the opcode fetched and
\* the cycles execute returned (-1 for none), and the status reads: the
\* status register and the write toggle before the read, the byte
\* returned, and the status register and the write toggle the read left;
\* overflow: a u16 sum or difference written with the plain + or -
\* operator left 0..65535.
NoObs ==
    [ppu_clocks |-> 0, cpu_clocks |-> 0, nmi_calls |-> 0, nmi_requests |-> 0,
     vblank_entries |-> 0, opcode |-> -1, cycles |-> -1, status_reads |-> <<>>,
     overflow |-> FALSE]

\* The plain u16 operators +, +=, - and -=: the value kept is the one
\* modulo 2^16, which is what a build without overflow checks computes, and
\* the overflow is observed, since a build with them panics there.
Checked16(m, v) ==
    IF v \in 0..65535 THEN m ELSE [m EXCEPT !.obs.overflow = TRUE]

\* A sparse array with one byte stored.
Store(mem, index, data) ==
    IF data = 0
    THEN [a \in (DOMAIN mem) \ {index} |-> mem[a]]
    ELSE [a \in (DOMAIN mem) \cup {index} |-> IF a = index THEN data ELSE mem[a]]

NoBytes == [a \in {} |-> 0]

(***************************************************************************)
(* Mapper0 (src/mapper/mapper_0.rs) behind Cartridge (src/cartridge.rs).   *)
(***************************************************************************)
\* Nrom128 for one 16 KiB block, Nrom256 for two
Mapper0_map_addr(c, addr) ==
    IF c.prg_rom_blocks = 1 THEN (addr % 32768) % 16384 ELSE addr % 32768

Mapper0_cpu_read(c, addr) == Peek(c.prg_rom, Mapper0_map_addr(c, addr))

Mapper0_cpu_write(c, addr, data) == c

Mapper0_ppu_read(c, addr) == Peek(c.chr_rom, addr % 8192)

Mapper0_ppu_write(c, addr, data) ==
    IF c.has_chr_ram
    THEN [c EXCEPT !.chr_rom = Store(c.chr_rom, addr % 8192, data)]
    ELSE c

Mapper0_mirroring(c) == IF c.mirror_flag = 0 THEN "Horizontal" ELSE "Vertical"

\* Mapper::check_irq and Mapper::count_scanline, the trait's defaults
Mapper_check_irq(c) == FALSE
Mapper_count_scanline(c) == c

(***************************************************************************)
(* Mapper4 (src/mapper/mapper_4.rs): the MMC3's PRG banking, registers and *)
(* scanline counter.  prg_rom is sparse and prg_rom_len its length.        *)
(***************************************************************************)
\* the struct Mapper4::new builds
Mapper4_fields(prg_rom, prg_rom_len, chr_rom_len) ==
    [mapper_id |-> 4,
     prg_rom |-> prg_rom, prg_rom_len |-> prg_rom_len,
     prg_ram |-> NoBytes, chr_rom |-> NoBytes,
     has_chr_ram |-> chr_rom_len = 0,
     bank_register |-> [i \in 0..7 |-> 0], bank_select |-> 0,
     irq_latch |-> 0, irq_counter |-> 0, irq_reload |-> FALSE,
     is_irq_enabled |-> FALSE, emit_irq |-> FALSE,
     mirroring |-> "Vertical", prg_ram_protect |-> 128,
     prg_banks |-> (prg_rom_len \div 8192) % 256]

\* BankSelect::prg_bank_mode
prg_bank_mode(bank_select) == (bank_select \div 64) % 2

\* Mapper4::map_cpu_addr with the second-to-last bank at 0xC000
Mapper4_map_cpu_addr_fixed_first(c, addr) ==
    LET bank == IF addr >= 32768 /\ addr <= 40959
                THEN c.bank_register[6] % 64
                ELSE IF addr >= 40960 /\ addr <= 49151
                THEN c.bank_register[7] % 64
                ELSE IF addr >= 49152 /\ addr <= 57343
                THEN Wrap8(c.prg_banks + 254)
                ELSE IF addr >= 57344 THEN Wrap8(c.prg_banks + 255)
                ELSE 0
    IN  (addr % 8192) + (bank % 64) * 8192

\* Mapper4::map_cpu_addr; prg_banks - 2 and prg_banks - 1 are u8 and do not
\* go below 0 for a ROM of two banks or more
Mapper4_map_cpu_addr(c, addr) ==
    LET second_to_last == Wrap8(c.prg_banks + 254)
        bank == IF addr >= 32768 /\ addr <= 40959
                THEN (IF prg_bank_mode(c.bank_select) = 0
                      THEN c.bank_register[6] % 64 ELSE second_to_last)
                ELSE IF addr >= 40960 /\ addr <= 49151
                THEN c.bank_register[7] % 64
                ELSE IF addr >= 49152 /\ addr <= 57343
                THEN (IF prg_bank_mode(c.bank_select) # 0
                      THEN c.bank_register[6] % 64 ELSE second_to_last)
                ELSE IF addr >= 57344 THEN Wrap8(c.prg_banks + 255)
                ELSE 0
    IN  (addr % 8192) + (bank % 64) * 8192

\* Mapper4::cpu_read where the index is inside prg_rom
Mapper4_cpu_read(c, addr) ==
    IF addr >= 24576 /\ addr <= 32767 THEN Peek(c.prg_ram, addr % 8192)
    ELSE IF addr >= 32768 THEN Peek(c.prg_rom, Mapper4_map_cpu_addr(c, addr))
    ELSE 0

Mapper4_cpu_write(c, addr, data) ==
    IF addr >= 24576 /\ addr <= 32767
    THEN [c EXCEPT !.prg_ram = Store(@, addr % 8192, data)]
    ELSE IF addr >= 32768 /\ addr <= 40959
    THEN (IF addr % 2 = 0 THEN [c EXCEPT !.bank_select = data]
          ELSE [c EXCEPT !.bank_register[c.bank_select % 8] = data])
    ELSE IF addr >= 40960 /\ addr <= 49151
    THEN (IF addr % 2 = 0
          THEN [c EXCEPT !.mirroring =
                    IF data % 2 = 0 THEN "Vertical" ELSE "Horizontal"]
          ELSE [c EXCEPT !.prg_ram_protect = data - (data % 64)])
    ELSE IF addr >= 49152 /\ addr <= 57343
    THEN (IF addr % 2 = 0 THEN [c EXCEPT !.irq_latch = data]
          ELSE [c EXCEPT !.irq_reload = TRUE])
    ELSE IF addr >= 57344
    THEN [c EXCEPT !.is_irq_enabled = (addr % 2 # 0)]
    ELSE c

Mapper4_mirroring(c) == c.mirroring

Mapper4_check_irq(c) == c.emit_irq

\* Mapper4::count_scanline that raises the flag at 0 whether or not IRQs
\* are enabled
Mapper4_count_scanline_ignoring_enable(c) ==
    LET c1 == IF c.irq_counter = 0 \/ c.irq_reload
              THEN [c EXCEPT !.irq_counter = c.irq_latch, !.irq_reload = FALSE]
              ELSE [c EXCEPT !.irq_counter = @ - 1]
    IN  [c1 EXCEPT !.emit_irq = (c1.irq_counter = 0)]

Mapper4_count_scanline(c) ==
    LET c1 == IF c.irq_counter = 0 \/ c.irq_reload
              THEN [c EXCEPT !.irq_counter = c.irq_latch, !.irq_reload = FALSE]
              ELSE [c EXCEPT !.irq_counter = @ - 1]
    IN  [c1 EXCEPT !.emit_irq = (c1.irq_counter = 0 /\ c1.is_irq_enabled)]

(***************************************************************************)
(* Mapper1 (src/mapper/mapper_1.rs): the MMC1's PRG banking and its serial *)
(* register port.                                                          *)
(***************************************************************************)
\* the struct Mapper1::new builds for a ROM of one 16 KiB bank or more
Mapper1_fields(prg_rom, prg_rom_len, chr_rom_len) ==
    [mapper_id |-> 1,
     prg_ram |-> NoBytes, prg_rom |-> prg_rom, prg_rom_len |-> prg_rom_len,
     chr_rom |-> NoBytes, has_chr_ram |-> chr_rom_len = 0,
     shift |-> 0, shift_count |-> 0, control |-> 0,
     chr_bank_0 |-> 0, chr_bank_1 |-> 0,
     prg_bank |-> Wrap8(((prg_rom_len \div 16384) % 256) + 255),
     prg_banks |-> (prg_rom_len \div 16384) % 256]

\* Control::mirroring and Control::prg_bank_mode
control_mirroring(control) == control % 4
control_prg_bank_mode(control) == (control \div 4) % 4

Mapper1_map_cpu_addr(c, addr) ==
    LET mode == control_prg_bank_mode(c.control)
        bank == IF mode \in {0, 1} THEN And8(c.prg_bank, 14)
                ELSE IF mode = 2
                THEN (IF addr < 49152 THEN 0 ELSE c.prg_bank % 16)
                ELSE (IF addr > 49152 THEN Wrap8(c.prg_banks + 255)
                      ELSE c.prg_bank % 16)
        bank_size == IF mode \in {0, 1} THEN 32 ELSE 16
    IN  BitOr(addr % (bank_size * 1024),
              BitAnd(bank * 16384, c.prg_rom_len - 1, 24), 24)

\* Mapper1::cpu_read where the index is inside prg_rom
Mapper1_cpu_read(c, addr) ==
    IF addr >= 24576 /\ addr <= 32767 THEN Peek(c.prg_ram, addr % 8192)
    ELSE IF addr >= 32768 THEN Peek(c.prg_rom, Mapper1_map_cpu_addr(c, addr))
    ELSE 0

\* Mapper1::cpu_write with the bits shifted in from the right
Mapper1_cpu_write_shifting_left(c, addr, data) ==
    IF addr >= 24576 /\ addr <= 32767
    THEN [c EXCEPT !.prg_ram = Store(@, addr % 8192, data)]
    ELSE IF addr < 32768 THEN c
    ELSE LET c1 == IF is_bit_set(data, 7)
                   THEN [c EXCEPT !.shift = 0, !.shift_count = 0]
                   ELSE IF c.shift_count < 5
                   THEN [c EXCEPT
                           !.shift = (2 * @ + (data % 2)) % 32,
                           !.shift_count = @ + 1]
                   ELSE c
         IN  IF c1.shift_count # 5 THEN c1
             ELSE [(IF addr <= 40959 THEN [c1 EXCEPT !.control = c1.shift]
                    ELSE IF addr <= 49151
                    THEN [c1 EXCEPT !.chr_bank_0 = c1.shift]
                    ELSE IF addr <= 57343
                    THEN [c1 EXCEPT !.chr_bank_1 = c1.shift]
                    ELSE [c1 EXCEPT !.prg_bank = c1.shift])
                   EXCEPT !.shift = 0, !.shift_count = 0]

Mapper1_cpu_write(c, addr, data) ==
    IF addr >= 24576 /\ addr <= 32767
    THEN [c EXCEPT !.prg_ram = Store(@, addr % 8192, data)]
    ELSE IF addr < 32768 THEN c
    ELSE LET c1 == IF is_bit_set(data, 7)
                   THEN [c EXCEPT !.shift = 0, !.shift_count = 0]
                   ELSE IF c.shift_count < 5
                   THEN [c EXCEPT
                           !.shift = Or8(@, (data % 2) * 32) \div 2,
                           !.shift_count = @ + 1]
                   ELSE c
         IN  IF c1.shift_count # 5 THEN c1
             ELSE [(IF addr <= 40959 THEN [c1 EXCEPT !.control = c1.shift]
                    ELSE IF addr <= 49151
                    THEN [c1 EXCEPT !.chr_bank_0 = c1.shift]
                    ELSE IF addr <= 57343
                    THEN [c1 EXCEPT !.chr_bank_1 = c1.shift]
                    ELSE [c1 EXCEPT !.prg_bank = c1.shift])
                   EXCEPT !.shift = 0, !.shift_count = 0]

Mapper1_mirroring(c) ==
    CASE control_mirroring(c.control) = 0 -> "SingleScreen"
      [] control_mirroring(c.control) = 1 -> "SingleScreenUpper"
      [] control_mirroring(c.control) = 2 -> "Vertical"
      [] OTHER -> "Horizontal"

(***************************************************************************)
(* Cartridge (src/cartridge.rs) hands every call to its mapper.            *)
(***************************************************************************)
Cartridge_cpu_read(m, addr) ==
    IF m.cart.mapper_id = 4 THEN Mapper4_cpu_read(m.cart, addr)
    ELSE IF m.cart.mapper_id = 1 THEN Mapper1_cpu_read(m.cart, addr)
    ELSE Mapper0_cpu_read(m.cart, addr)

Cartridge_cpu_write(m, addr, data) ==
    [m EXCEPT !.cart =
        IF @.mapper_id = 4 THEN Mapper4_cpu_write(@, addr, data)
        ELSE IF @.mapper_id = 1 THEN Mapper1_cpu_write(@, addr, data)
        ELSE Mapper0_cpu_write(@, addr, data)]

Cartridge_ppu_read(m, addr) == Mapper0_ppu_read(m.cart, addr)

Cartridge_ppu_write(m, addr, data) ==
    [m EXCEPT !.cart = Mapper0_ppu_write(m.cart, addr, data)]

Cartridge_mirroring(m) ==
    IF m.cart.mapper_id = 4 THEN Mapper4_mirroring(m.cart)
    ELSE IF m.cart.mapper_id = 1 THEN Mapper1_mirroring(m.cart)
    ELSE Mapper0_mirroring(m.cart)

\* Bus::request_irq
request_irq(m) == [m EXCEPT !.bus.emit_irq = TRUE]

Cartridge_count_scanline(m) ==
    LET m1 == [m EXCEPT !.cart =
                  IF @.mapper_id = 4 THEN Mapper4_count_scanline(@)
                  ELSE Mapper_count_scanline(@)]
    IN  IF (IF m1.cart.mapper_id = 4 THEN Mapper4_check_irq(m1.cart)
            ELSE Mapper_check_irq(m1.cart))
        THEN request_irq(m1) ELSE m1

(***************************************************************************)
(* Ppu: bitfields, memory and registers (src/ppu/mod.rs).                  *)
(***************************************************************************)
coarse_x(v) == v % 32
coarse_y(v) == (v \div 32) % 32
nametable_x(v) == (v \div 1024) % 2
nametable_y(v) == (v \div 2048) % 2
fine_y(v) == (v \div 4096) % 8

set_coarse_x(v, x) == v - coarse_x(v) + (x % 32)
set_coarse_y(v, y) == v - 32 * coarse_y(v) + 32 * (y % 32)
set_nametable_x(v, x) == v - 1024 * nametable_x(v) + 1024 * (x % 2)
set_nametable_y(v, y) == v - 2048 * nametable_y(v) + 2048 * (y % 2)
set_fine_y(v, y) == v - 4096 * fine_y(v) + 4096 * (y % 8)

\* PpuControl
address_increment(control) == (control \div 4) % 2
sprite_pattern(control) == (control \div 8) % 2
background_pattern(control) == (control \div 16) % 2
sprite_size(control) == (control \div 32) % 2
nmi_enabled(control) == is_bit_set(control, 7)

\* PpuMask
show_background(mask) == is_bit_set(mask, 3)
show_sprites(mask) == is_bit_set(mask, 4)

\* PpuStatus
sprite_zero_hit(status) == is_bit_set(status, 6)
vblank(status) == is_bit_set(status, 7)
set_sprite_zero_hit(status, b) ==
    status - 64 * ((status \div 64) % 2) + 64 * BoolBit(b)
set_vblank(status, b) == (status % 128) + 128 * BoolBit(b)

\* the index in nametables an address in 0x2000..=0x3EFF selects
NametableIndex(m, addr) ==
    LET mirroring == Cartridge_mirroring(m)
    IN  IF mirroring = "Horizontal"
        THEN IF (addr % 4096) < 2048 THEN addr % 1024 ELSE (addr % 1024) + 1024
        ELSE IF mirroring = "Vertical" THEN addr % 2048
        ELSE addr % 1024

\* PaletteIndex with the sprite palettes' first entries stored apart
PaletteIndex_without_mirrors(addr) == addr % 32

\* the index in palette_ram an address in 0x3F00..=0x3FFF selects
PaletteIndex(addr) ==
    LET a == addr % 32
    IN  IF a \in {16, 20, 24, 28} THEN a - 16 ELSE a

ppu_read(m, addr) ==
    IF addr <= 8191 THEN Cartridge_ppu_read(m, addr)
    ELSE IF addr <= 16127 THEN Peek(m.ppu.nametables, NametableIndex(m, addr))
    ELSE IF addr <= 16383 THEN Peek(m.ppu.palette_ram, PaletteIndex(addr))
    ELSE 0

ppu_write(m, addr, data) ==
    IF addr <= 8191 THEN Cartridge_ppu_write(m, addr, data)
    ELSE IF addr <= 16127
    THEN [m EXCEPT !.ppu.nametables =
                       Store(@, NametableIndex(m, addr), data)]
    ELSE IF addr <= 16383
    THEN [m EXCEPT !.ppu.palette_ram = Store(@, PaletteIndex(addr), data)]
    ELSE m

\* vram_addr.0 += 1 or += 32
AdvanceVramAddr(m) ==
    With(IF address_increment(m.ppu.control) = 0 THEN 1 ELSE 32,
         LAMBDA step :
             Checked16([m EXCEPT !.ppu.vram_addr = Wrap16(@ + step)],
                       m.ppu.vram_addr + step))

\* the byte Ppu::cpu_read returns
Ppu_cpu_read_data(m, addr) ==
    CASE addr = 2 ->
            (m.ppu.status - (m.ppu.status % 32)) + (m.ppu.ppu_data_buffer % 32)
      [] addr = 4 -> m.ppu.oam[m.ppu.oam_addr]
      [] addr = 7 ->
            IF m.ppu.vram_addr >= 16128
            THEN ppu_read(m, m.ppu.vram_addr)
            ELSE m.ppu.ppu_data_buffer
      [] OTHER -> 0

\* Ppu::cpu_read with a status read that leaves the vblank flag alone
Ppu_cpu_read_keeps_vblank(m, addr) ==
    CASE addr = 2 ->
            With([m EXCEPT !.ppu.addr_latch = 0],
                 LAMBDA m1 :
                     [m1 EXCEPT !.obs.status_reads =
                         Append(@, [before |-> m.ppu.status,
                                    toggle |-> m.ppu.addr_latch,
                                    data |-> Ppu_cpu_read_data(m, 2),
                                    after |-> m1.ppu.status,
                                    latch |-> m1.ppu.addr_latch])])
      [] addr = 7 ->
            AdvanceVramAddr(
                [m EXCEPT !.ppu.ppu_data_buffer = ppu_read(m, m.ppu.vram_addr)])
      [] OTHER -> m

\* the machine after Ppu::cpu_read
Ppu_cpu_read(m, addr) ==
    CASE addr = 2 ->
            With([m EXCEPT !.ppu.status = set_vblank(@, FALSE),
                           !.ppu.addr_latch = 0],
                 LAMBDA m1 :
                     [m1 EXCEPT !.obs.status_reads =
                         Append(@, [before |-> m.ppu.status,
                                    toggle |-> m.ppu.addr_latch,
                                    data |-> Ppu_cpu_read_data(m, 2),
                                    after |-> m1.ppu.status,
                                    latch |-> m1.ppu.addr_latch])])
      [] addr = 7 ->
            AdvanceVramAddr(
                [m EXCEPT !.ppu.ppu_data_buffer = ppu_read(m, m.ppu.vram_addr)])
      [] OTHER -> m

\* Ppu::cpu_write where the second PPUSCROLL write leaves the toggle
Ppu_cpu_write_scroll_keeping_state(m, addr, data) ==
    CASE addr = 0 ->
            [m EXCEPT !.ppu.control = data,
                      !.ppu.temp_vram_addr =
                          set_nametable_y(set_nametable_x(@, data % 2),
                                          (data \div 2) % 2)]
      [] addr = 1 -> [m EXCEPT !.ppu.mask = data]
      [] addr = 3 -> [m EXCEPT !.ppu.oam_addr = data]
      [] addr = 4 ->
            [m EXCEPT !.ppu.oam[m.ppu.oam_addr] = data,
                      !.ppu.oam_addr = Wrap8(@ + 1)]
      [] addr = 5 ->
            IF m.ppu.addr_latch = 0
            THEN [m EXCEPT !.ppu.temp_vram_addr = set_coarse_x(@, data \div 8),
                           !.ppu.fine_x_scroll = data % 8,
                           !.ppu.addr_latch = 1]
            ELSE [m EXCEPT !.ppu.temp_vram_addr =
                               set_fine_y(set_coarse_y(@, data \div 8), data % 8)]
      [] addr = 6 ->
            IF m.ppu.addr_latch = 0
            THEN [m EXCEPT !.ppu.temp_vram_addr = (@ % 256) + 256 * (data % 64),
                           !.ppu.addr_latch = 1]
            ELSE LET t == (m.ppu.temp_vram_addr - (m.ppu.temp_vram_addr % 256))
                          + data
                 IN  [m EXCEPT !.ppu.temp_vram_addr = t,
                               !.ppu.vram_addr = t,
                               !.ppu.addr_latch = 0]
      [] addr = 7 -> AdvanceVramAddr(ppu_write(m, m.ppu.vram_addr, data))
      [] addr = 16404 -> [m EXCEPT !.ppu.oam_dma_page = data]
      [] OTHER -> m

Ppu_cpu_write(m, addr, data) ==
    CASE addr = 0 ->
            [m EXCEPT !.ppu.control = data,
                      !.ppu.temp_vram_addr =
                          set_nametable_y(set_nametable_x(@, data % 2),
                                          (data \div 2) % 2)]
      [] addr = 1 -> [m EXCEPT !.ppu.mask = data]
      [] addr = 3 -> [m EXCEPT !.ppu.oam_addr = data]
      [] addr = 4 ->
            [m EXCEPT !.ppu.oam[m.ppu.oam_addr] = data,
                      !.ppu.oam_addr = Wrap8(@ + 1)]
      [] addr = 5 ->
            IF m.ppu.addr_latch = 0
            THEN [m EXCEPT !.ppu.temp_vram_addr = set_coarse_x(@, data \div 8),
                           !.ppu.fine_x_scroll = data % 8,
                           !.ppu.addr_latch = 1]
            ELSE [m EXCEPT !.ppu.temp_vram_addr =
                               set_fine_y(set_coarse_y(@, data \div 8), data % 8),
                           !.ppu.addr_latch = 0]
      [] addr = 6 ->
            IF m.ppu.addr_latch = 0
            THEN [m EXCEPT !.ppu.temp_vram_addr = (@ % 256) + 256 * (data % 64),
                           !.ppu.addr_latch = 1]
            ELSE LET t == (m.ppu.temp_vram_addr - (m.ppu.temp_vram_addr % 256))
                          + data
                 IN  [m EXCEPT !.ppu.temp_vram_addr = t,
                               !.ppu.vram_addr = t,
                               !.ppu.addr_latch = 0]
      [] addr = 7 -> AdvanceVramAddr(ppu_write(m, m.ppu.vram_addr, data))
      [] addr = 16404 -> [m EXCEPT !.ppu.oam_dma_page = data]
      [] OTHER -> m

(***************************************************************************)
(* Ppu::clock (src/ppu/mod.rs).  The frame buffer that draw_pixel fills is *)
(* written and never read by the kernel; the model leaves it out.          *)
(***************************************************************************)
Shl8(v) == (2 * v) % 256
Shl16(v) == (2 * v) % 65536

OnRenderLine(m) == m.ppu.scanline <= 239 \/ m.ppu.scanline = 261

RenderingEnabled(m) == show_background(m.ppu.mask) \/ show_sprites(m.ppu.mask)

\* the sprite counters and shifters of one dot
ShiftSprites(m) ==
    IF OnRenderLine(m) /\ m.ppu.cycle >= 2 /\ m.ppu.cycle <= 257
       /\ show_sprites(m.ppu.mask)
    THEN [m EXCEPT
            !.ppu.sprite_x_pos =
                [i \in 0..7 |-> IF @[i] # 0 THEN @[i] - 1 ELSE @[i]],
            !.ppu.sprite_pattern_shift_low =
                [i \in 0..7 |->
                    IF m.ppu.sprite_x_pos[i] # 0 THEN @[i] ELSE Shl8(@[i])],
            !.ppu.sprite_pattern_shift_high =
                [i \in 0..7 |->
                    IF m.ppu.sprite_x_pos[i] # 0 THEN @[i] ELSE Shl8(@[i])]]
    ELSE m

update_shift_registers(m) ==
    IF show_background(m.ppu.mask)
    THEN [m EXCEPT !.ppu.pattern_table_shift_low = Shl16(@),
                   !.ppu.pattern_table_shift_high = Shl16(@),
                   !.ppu.palette_attrib_shift_low = Shl16(@),
                   !.ppu.palette_attrib_shift_high = Shl16(@)]
    ELSE m

load_shift_registers(m) ==
    [m EXCEPT
        !.ppu.pattern_table_shift_low =
            (@ - (@ % 256)) + m.ppu.next_tile_pattern_low,
        !.ppu.pattern_table_shift_high =
            (@ - (@ % 256)) + m.ppu.next_tile_pattern_high,
        !.ppu.palette_attrib_shift_low =
            (@ - (@ % 256))
            + (IF m.ppu.next_tile_attrib % 2 # 0 THEN 255 ELSE 0),
        !.ppu.palette_attrib_shift_high =
            (@ - (@ % 256))
            + (IF (m.ppu.next_tile_attrib \div 2) % 2 # 0 THEN 255 ELSE 0)]

update_x_scroll(m) ==
    IF RenderingEnabled(m)
    THEN [m EXCEPT !.ppu.vram_addr =
            set_coarse_x(set_nametable_x(@, nametable_x(m.ppu.temp_vram_addr)),
                         coarse_x(m.ppu.temp_vram_addr))]
    ELSE m

update_y_scroll(m) ==
    IF RenderingEnabled(m)
    THEN [m EXCEPT !.ppu.vram_addr =
            set_fine_y(
                set_coarse_y(
                    set_nametable_y(@, nametable_y(m.ppu.temp_vram_addr)),
                    coarse_y(m.ppu.temp_vram_addr)),
                fine_y(m.ppu.temp_vram_addr))]
    ELSE m

\* increment_y_scroll that wraps the row only at 31, toggling the nametable
increment_y_scroll_wrapping_at_31(m) ==
    LET v == m.ppu.vram_addr
        y == coarse_y(v)
    IN  IF ~RenderingEnabled(m) THEN m
        ELSE IF fine_y(v) < 7
        THEN [m EXCEPT !.ppu.vram_addr = set_fine_y(v, fine_y(v) + 1)]
        ELSE IF y = 31
        THEN [m EXCEPT !.ppu.vram_addr =
                set_coarse_y(
                    set_nametable_y(set_fine_y(v, 0), (nametable_y(v) + 1) % 2),
                    0)]
        ELSE [m EXCEPT !.ppu.vram_addr = set_coarse_y(set_fine_y(v, 0), y + 1)]

increment_y_scroll(m) ==
    LET v == m.ppu.vram_addr
        y == coarse_y(v)
    IN  IF ~RenderingEnabled(m) THEN m
        ELSE IF fine_y(v) < 7
        THEN [m EXCEPT !.ppu.vram_addr = set_fine_y(v, fine_y(v) + 1)]
        ELSE IF y = 29
        THEN [m EXCEPT !.ppu.vram_addr =
                set_coarse_y(
                    set_nametable_y(set_fine_y(v, 0), (nametable_y(v) + 1) % 2),
                    0)]
        ELSE IF y = 31
        THEN [m EXCEPT !.ppu.vram_addr = set_coarse_y(set_fine_y(v, 0), 0)]
        ELSE [m EXCEPT !.ppu.vram_addr = set_coarse_y(set_fine_y(v, 0), y + 1)]

increment_x_scroll(m) ==
    LET v == m.ppu.vram_addr
    IN  IF ~RenderingEnabled(m) THEN m
        ELSE IF coarse_x(v) = 31
        THEN [m EXCEPT !.ppu.vram_addr =
                set_nametable_x(set_coarse_x(v, 0), (nametable_x(v) + 1) % 2)]
        ELSE [m EXCEPT !.ppu.vram_addr = set_coarse_x(v, coarse_x(v) + 1)]

\* next_tile_nametable = ppu_read(0x2000 | (vram_addr.0 & 0x0FFF))
FetchNametable(m) ==
    [m EXCEPT !.ppu.next_tile_nametable =
        ppu_read(m, 8192 + (m.ppu.vram_addr % 4096))]

FetchAttrib(m) ==
    LET v == m.ppu.vram_addr
        byte == ppu_read(m, 9152 + 2048 * nametable_y(v) + 1024 * nametable_x(v)
                            + 8 * (coarse_y(v) \div 4) + (coarse_x(v) \div 4))
        a1 == IF (coarse_y(v) \div 2) % 2 # 0 THEN byte \div 16 ELSE byte
        a2 == IF (coarse_x(v) \div 2) % 2 # 0 THEN a1 \div 4 ELSE a1
    IN  [m EXCEPT !.ppu.next_tile_attrib = a2 % 4]

\* the address of the next tile's pattern row, low plane
PatternAddr(m) ==
    4096 * background_pattern(m.ppu.control)
    + 16 * m.ppu.next_tile_nametable + fine_y(m.ppu.vram_addr)

FetchPatternLow(m) ==
    [m EXCEPT !.ppu.next_tile_pattern_low = ppu_read(m, PatternAddr(m))]

FetchPatternHigh(m) ==
    [m EXCEPT !.ppu.next_tile_pattern_high = ppu_read(m, PatternAddr(m) + 8)]

\* the background pipeline of one dot, lines 219-266
FetchBackground(m) ==
    IF OnRenderLine(m)
       /\ (   (m.ppu.cycle >= 2 /\ m.ppu.cycle <= 257)
           \/ (m.ppu.cycle >= 321 /\ m.ppu.cycle <= 337))
    THEN LET m1 == update_shift_registers(m)
             step == (m.ppu.cycle - 1) % 8
         IN  CASE step = 0 -> FetchNametable(load_shift_registers(m1))
               [] step = 2 -> FetchAttrib(m1)
               [] step = 4 -> FetchPatternLow(m1)
               [] step = 6 -> FetchPatternHigh(m1)
               [] step = 7 -> increment_x_scroll(m1)
               [] OTHER -> m1
    ELSE m

\* lines 267-279
EndOfLineFetches(m) ==
    IF ~OnRenderLine(m) THEN m
    ELSE LET m1 == IF m.ppu.cycle = 256 THEN increment_y_scroll(m) ELSE m
             m2 == IF m.ppu.cycle = 257
                   THEN update_x_scroll(load_shift_registers(m1)) ELSE m1
             m3 == IF m.ppu.cycle = 260 /\ RenderingEnabled(m2)
                   THEN Cartridge_count_scanline(m2) ELSE m2
         IN  IF m.ppu.cycle = 338 \/ m.ppu.cycle = 340
             THEN FetchNametable(m3) ELSE m3

\* lines 284-289
EnterVblank(m) ==
    IF m.ppu.cycle = 1 /\ m.ppu.scanline = 241
    THEN IF nmi_enabled(m.ppu.control)
         THEN [m EXCEPT !.ppu.status = set_vblank(@, TRUE),
                        !.ppu.emit_nmi = TRUE,
                        !.obs.vblank_entries = @ + 1,
                        !.obs.nmi_requests = @ + 1]
         ELSE [m EXCEPT !.ppu.status = set_vblank(@, TRUE),
                        !.obs.vblank_entries = @ + 1]
    ELSE m

\* lines 290-308
PreRenderLine(m) ==
    IF m.ppu.scanline # 261 THEN m
    ELSE LET m1 == IF m.ppu.cycle = 1
                   THEN [m EXCEPT
                           !.ppu.status =
                               set_sprite_zero_hit(set_vblank(@, FALSE), FALSE),
                           !.ppu.is_frame_ready = TRUE,
                           !.ppu.is_odd_frame = ~@]
                   ELSE m
             m2 == IF m.ppu.cycle >= 280 /\ m.ppu.cycle <= 304
                   THEN update_y_scroll(m1) ELSE m1
             m3 == IF m2.ppu.cycle = 339 /\ m2.ppu.is_odd_frame
                   THEN [m2 EXCEPT !.ppu.cycle = 0, !.ppu.scanline = 0] ELSE m2
         IN  IF m3.ppu.cycle = 340
             THEN [m3 EXCEPT !.ppu.cycle = 0, !.ppu.scanline = 0] ELSE m3

\* u16::wrapping_sub
WrappingSub16(a, b) == (a - b + 65536) % 65536

\* EvaluateSprites testing the scanline to be drawn against the OAM byte
EvaluateSprites_for_next_line(p) ==
    LET InRange(sprite) ==
            WrappingSub16(p.scanline + 1, p.oam[sprite * 4])
                < (sprite_size(p.control) + 1) * 8
        count == p.secondary_oam_sprite_count
        Slot(sprite) ==
            count + Cardinality({t \in 0..(sprite - 1) : InRange(t)})
        Copied == {sprite \in 0..63 : InRange(sprite) /\ Slot(sprite) < 8}
        From(slot) == CHOOSE sprite \in Copied : Slot(sprite) = slot
    IN  <<[k \in 0..31 |->
              IF (k \div 4) \in count..(count + Cardinality(Copied) - 1)
              THEN p.oam[From(k \div 4) * 4 + (k % 4)]
              ELSE p.secondary_oam[k]],
          count + Cardinality(Copied)>>

\* The loop of lines 315-329: the pair of secondary_oam and
\* secondary_oam_sprite_count it leaves.  The loop copies the OAM entries in
\* range of the scanline, in OAM order, until the count is 8.
EvaluateSprites(p) ==
    LET InRange(sprite) ==
            WrappingSub16(p.scanline, p.oam[sprite * 4])
                < (sprite_size(p.control) + 1) * 8
        count == p.secondary_oam_sprite_count
        Slot(sprite) ==
            count + Cardinality({t \in 0..(sprite - 1) : InRange(t)})
        Copied == {sprite \in 0..63 : InRange(sprite) /\ Slot(sprite) < 8}
        From(slot) == CHOOSE sprite \in Copied : Slot(sprite) = slot
    IN  <<[k \in 0..31 |->
              IF (k \div 4) \in count..(count + Cardinality(Copied) - 1)
              THEN p.oam[From(k \div 4) * 4 + (k % 4)]
              ELSE p.secondary_oam[k]],
          count + Cardinality(Copied)>>

\* the address of the low pattern row of the sprite in slot i, lines 337-378
SpritePatternAddr(p, i) ==
    LET y_pos == p.secondary_oam[i * 4]
        index == p.secondary_oam[i * 4 + 1]
        attrib == p.secondary_oam[i * 4 + 2]
        flip_vertically == is_bit_set(attrib, 7)
        line == WrappingSub16(p.scanline, y_pos) % 16
        row == IF flip_vertically THEN 7 - (line % 8) ELSE line % 8
    IN  IF sprite_size(p.control) = 0
        THEN 4096 * sprite_pattern(p.control) + 16 * index + row
        ELSE IF (line < 8 /\ ~flip_vertically) \/ (flip_vertically /\ line > 7)
        THEN 4096 * (index % 2) + 16 * (index - (index % 2)) + row
        ELSE 4096 * (index % 2) + 16 * ((index - (index % 2)) + 1) + row

RECURSIVE reverse_bits(_, _)
reverse_bits(a, n) ==
    IF n = 0 THEN 0
    ELSE (a % 2) * Pow2(n - 1) + reverse_bits(a \div 2, n - 1)

\* the pattern row a slot is loaded with: plane 0 is low, plane 1 is high
SpritePatternRow(m, i, plane) ==
    LET byte == ppu_read(m, SpritePatternAddr(m.ppu, i) + 8 * plane)
    IN  IF is_bit_set(m.ppu.secondary_oam[i * 4 + 2], 6)
        THEN reverse_bits(byte, 8) ELSE byte

\* lines 331-388
LoadSprites(m) ==
    LET n == m.ppu.secondary_oam_sprite_count
    IN  [m EXCEPT
            !.ppu.sprite_x_pos =
                [i \in 0..7 |->
                    IF i < n THEN m.ppu.secondary_oam[i * 4 + 3] ELSE @[i]],
            !.ppu.sprite_pattern_shift_low =
                [i \in 0..7 |-> IF i < n THEN SpritePatternRow(m, i, 0) ELSE @[i]],
            !.ppu.sprite_pattern_shift_high =
                [i \in 0..7 |-> IF i < n THEN SpritePatternRow(m, i, 1) ELSE @[i]],
            !.ppu.sprite_attrib =
                [i \in 0..7 |->
                    IF i < n THEN m.ppu.secondary_oam[i * 4 + 2] ELSE @[i]]]

\* lines 309-389
VisibleLineSprites(m) ==
    IF m.ppu.scanline > 239 THEN m
    ELSE IF m.ppu.cycle = 64
    THEN [m EXCEPT !.ppu.secondary_oam = [k \in 0..31 |-> 255],
                   !.ppu.secondary_oam_sprite_count = 0]
    ELSE IF m.ppu.cycle = 257
    THEN LET s == EvaluateSprites(m.ppu)
         IN  [m EXCEPT !.ppu.secondary_oam = s[1],
                       !.ppu.secondary_oam_sprite_count = s[2]]
    ELSE IF m.ppu.cycle = 320 THEN LoadSprites(m)
    ELSE m

\* bit (15 - fine_x_scroll) of a background shifter: (v & bit_mux) > 0
MuxBit(m, v) == (v \div Pow2(15 - m.ppu.fine_x_scroll)) % 2

\* the 2-bit pattern a sprite slot shows at this dot
SlotPattern(p, i) ==
    2 * (p.sprite_pattern_shift_high[i] \div 128)
    + (p.sprite_pattern_shift_low[i] \div 128)

\* the slots lines 403-417 can choose from
OpaqueSlots(p) == {i \in 0..7 : p.sprite_x_pos[i] = 0 /\ SlotPattern(p, i) # 0}

\* the first of them
FirstSlot(p) == CHOOSE i \in OpaqueSlots(p) : \A j \in OpaqueSlots(p) : i <= j

background_index(m) ==
    2 * MuxBit(m, m.ppu.pattern_table_shift_high)
    + MuxBit(m, m.ppu.pattern_table_shift_low)

background_palette(m) ==
    2 * MuxBit(m, m.ppu.palette_attrib_shift_high)
    + MuxBit(m, m.ppu.palette_attrib_shift_low)

sprite_pattern_at_dot(m) ==
    IF OpaqueSlots(m.ppu) = {} THEN 0 ELSE SlotPattern(m.ppu, FirstSlot(m.ppu))

sample_palette_ram(m, palette, index) ==
    ppu_read(m, 16128 + ((4 * palette + index) % 256))

\* lines 391-435: the only state compositing changes is sprite_zero_hit
Composite(m) ==
    IF background_index(m) # 0 /\ sprite_pattern_at_dot(m) # 0
    THEN [m EXCEPT !.ppu.status = set_sprite_zero_hit(@, TRUE)]
    ELSE m

\* lines 440-444
AdvanceDot(m) ==
    LET m1 == IF m.ppu.cycle = 340
              THEN [m EXCEPT !.ppu.cycle = 0, !.ppu.scanline = @ + 1] ELSE m
    IN  [m1 EXCEPT !.ppu.cycle = @ + 1, !.obs.ppu_clocks = @ + 1]

Ppu_clock(m) ==
    AdvanceDot(
      Composite(
        VisibleLineSprites(
          PreRenderLine(
            EnterVblank(
              EndOfLineFetches(
                FetchBackground(
                  ShiftSprites(m))))))))

\* Ppu::new
Ppu_new ==
    [control |-> 0, mask |-> 0, status |-> 0,
     nametables |-> NoBytes, palette_ram |-> NoBytes,
     oam |-> [a \in 0..255 |-> 0],
     oam_addr |-> 0, oam_dma_page |-> 0,
     cycle |-> 0, scanline |-> 0,
     ppu_data_buffer |-> 0, vram_addr |-> 0, temp_vram_addr |-> 0,
     fine_x_scroll |-> 0, addr_latch |-> 0,
     pattern_table_shift_low |-> 0, pattern_table_shift_high |-> 0,
     palette_attrib_shift_low |-> 0, palette_attrib_shift_high |-> 0,
     next_tile_nametable |-> 0, next_tile_attrib |-> 0,
     next_tile_pattern_low |-> 0, next_tile_pattern_high |-> 0,
     secondary_oam |-> [k \in 0..31 |-> 0],
     secondary_oam_sprite_count |-> 0,
     sprite_pattern_shift_low |-> [i \in 0..7 |-> 0],
     sprite_pattern_shift_high |-> [i \in 0..7 |-> 0],
     sprite_attrib |-> [i \in 0..7 |-> 0],
     sprite_x_pos |-> [i \in 0..7 |-> 0],
     is_frame_ready |-> FALSE, emit_nmi |-> FALSE, is_odd_frame |-> FALSE]

(***************************************************************************)
(* Bus::cpu_read and Bus::cpu_write (src/bus.rs).  The Apu is outside the  *)
(* model: its registers read 0 and writes to them change nothing here.     *)
(***************************************************************************)
IsApuRead(addr) == (addr >= 16384 /\ addr <= 16403) \/ addr = 16405

\* the byte Bus::cpu_read returns
Bus_cpu_read_data(m, addr) ==
    IF addr <= 8191 THEN Peek(m.bus.ram, addr % 2048)
    ELSE IF addr <= 16383 THEN Ppu_cpu_read_data(m, addr % 8)
    ELSE IF IsApuRead(addr) THEN 0
    ELSE IF addr = 16404 THEN Ppu_cpu_read_data(m, addr)
    ELSE IF addr = 16406
    THEN (IF m.bus.controller_strobe
          THEN m.bus.controller_1 ELSE m.bus.controller_1_state) % 2
    ELSE IF addr = 16407
    THEN (IF m.bus.controller_strobe
          THEN m.bus.controller_2 ELSE m.bus.controller_2_state) % 2
    ELSE IF addr >= 16416 THEN Cartridge_cpu_read(m, addr)
    ELSE 0

\* the machine after Bus::cpu_read
\* Bus::cpu_read that leaves the controller shift registers alone
Bus_cpu_read_without_shift(m, addr) ==
    IF addr >= 8192 /\ addr <= 16383 THEN Ppu_cpu_read(m, addr % 8)
    ELSE IF addr = 16404 THEN Ppu_cpu_read(m, addr)
    ELSE IF addr = 16406
    THEN [m EXCEPT !.bus.controller_1_state =
            IF m.bus.controller_strobe THEN m.bus.controller_1 ELSE @]
    ELSE IF addr = 16407
    THEN [m EXCEPT !.bus.controller_2_state =
            IF m.bus.controller_strobe THEN m.bus.controller_2 ELSE @]
    ELSE m

Bus_cpu_read(m, addr) ==
    IF addr >= 8192 /\ addr <= 16383 THEN Ppu_cpu_read(m, addr % 8)
    ELSE IF addr = 16404 THEN Ppu_cpu_read(m, addr)
    ELSE IF addr = 16406
    THEN [m EXCEPT !.bus.controller_1_state =
            (IF m.bus.controller_strobe THEN m.bus.controller_1 ELSE @) \div 2]
    ELSE IF addr = 16407
    THEN [m EXCEPT !.bus.controller_2_state =
            (IF m.bus.controller_strobe THEN m.bus.controller_2 ELSE @) \div 2]
    ELSE m

Bus_cpu_write(m, addr, data) ==
    IF addr <= 8191
    THEN [m EXCEPT !.bus.ram = Store(@, addr % 2048, data)]
    ELSE IF addr <= 16383 THEN Ppu_cpu_write(m, addr % 8, data)
    ELSE IF addr = 16404
    THEN [Ppu_cpu_write(m, addr, data) EXCEPT !.bus.is_dma_active = TRUE,
                                              !.bus.dma_dummy = TRUE]
    ELSE IF addr = 16406
    THEN [m EXCEPT !.bus.controller_strobe = (data % 2 # 0),
                   !.bus.controller_1_state = m.bus.controller_1,
                   !.bus.controller_2_state = m.bus.controller_2]
    ELSE IF addr >= 16416 THEN Cartridge_cpu_write(m, addr, data)
    ELSE m

(***************************************************************************)
(* Cpu (src/cpu/mod.rs): helpers.                                          *)
(***************************************************************************)
\* Cpu::read: m.ret is the byte read
Cpu_read(m, addr) == Ret(Bus_cpu_read(m, addr), Bus_cpu_read_data(m, addr))
Cpu_write(m, addr, data) == Bus_cpu_write(m, addr, data)

\* Status bits
FlagC == 0
FlagZ == 1
FlagI == 2
FlagD == 3
FlagB == 4
FlagV == 6
FlagN == 7

\* Status::intersects
intersects(status, flag) == is_bit_set(status, flag)

\* Status::set on a status byte
SetBit(status, flag, b) ==
    status - Pow2(flag) * ((status \div Pow2(flag)) % 2) + Pow2(flag) * BoolBit(b)

set_flag(m, flag, b) == [m EXCEPT !.cpu.status = SetBit(@, flag, b)]

\* the Z and N flags of a result
set_zn(m, result) ==
    set_flag(set_flag(m, FlagZ, result = 0), FlagN, is_bit_set(result, 7))

get_register(m, register) ==
    CASE register = "A" -> m.cpu.accumulator
      [] register = "X" -> m.cpu.x_register
      [] register = "Y" -> m.cpu.y_register

set_register(m, register, value) ==
    CASE register = "A" -> [m EXCEPT !.cpu.accumulator = value]
      [] register = "X" -> [m EXCEPT !.cpu.x_register = value]
      [] register = "Y" -> [m EXCEPT !.cpu.y_register = value]

\* program_counter += k, with k negative for -= (u16)
AddPc(m, k) ==
    Checked16([m EXCEPT !.cpu.program_counter = (@ + k + 65536) % 65536],
              m.cpu.program_counter + k)

push(m, value) ==
    [Cpu_write(m, 256 + m.cpu.stack_pointer, value)
        EXCEPT !.cpu.stack_pointer = (@ + 255) % 256]

\* pull: m.ret is the byte pulled
pull(m) ==
    With([m EXCEPT !.cpu.stack_pointer = (@ + 1) % 256],
         LAMBDA m1 : Cpu_read(m1, 256 + m1.cpu.stack_pointer))

\* read_u16_absolute: m.ret is the word read
read_u16_absolute(m, address) ==
    With(Cpu_read(m, address), LAMBDA low :
    With(Cpu_read(Checked16(low, address + 1), Wrap16(address + 1)),
         LAMBDA high : Ret(high, concat_bytes(low.ret, high.ret))))

\* read_u16: m.ret is the word at the program counter
read_u16(m) == AddPc(read_u16_absolute(m, m.cpu.program_counter), 1)

add(m, data) ==
    LET a == m.cpu.accumulator
        sum == a + data + BoolBit(intersects(m.cpu.status, FlagC))
        result == sum % 256
        operands_have_same_sign == (is_bit_set(a, 7) = is_bit_set(data, 7))
        sum_has_different_sign == (is_bit_set(a, 7) # is_bit_set(result, 7))
        m1 == [m EXCEPT !.cpu.accumulator = result]
        m2 == set_flag(m1, FlagC, sum > 255)
        m3 == set_flag(m2, FlagZ, result = 0)
        m4 == set_flag(m3, FlagV,
                       operands_have_same_sign /\ sum_has_different_sign)
    IN  Ret(set_flag(m4, FlagN, is_bit_set(result, 7)), 2)

bitwise(m, operation) ==
    With(Cpu_read(m, m.cpu.absolute_address), LAMBDA m1 :
        LET data == m1.ret
            result == CASE operation = "And" -> And8(m1.cpu.accumulator, data)
                        [] operation = "Or" -> Or8(m1.cpu.accumulator, data)
                        [] operation = "Xor" -> Xor8(m1.cpu.accumulator, data)
        IN  Ret(set_zn([m1 EXCEPT !.cpu.accumulator = result], result), 2))

branch(m, branch_condition) ==
    LET st == m.cpu.status
        condition_met ==
            CASE branch_condition = "CarrySet" -> intersects(st, FlagC)
              [] branch_condition = "CarryClear" -> ~intersects(st, FlagC)
              [] branch_condition = "Equal" -> intersects(st, FlagZ)
              [] branch_condition = "NotEqual" -> ~intersects(st, FlagZ)
              [] branch_condition = "Minus" -> intersects(st, FlagN)
              [] branch_condition = "Plus" -> ~intersects(st, FlagN)
              [] branch_condition = "OverflowSet" -> intersects(st, FlagV)
              [] branch_condition = "OverflowClear" -> ~intersects(st, FlagV)
    IN  IF condition_met
        THEN Ret([m EXCEPT !.cpu.program_counter = m.cpu.absolute_address],
                 IF m.cpu.branch_will_cross_page THEN 3 ELSE 2)
        ELSE Ret(m, 1)

compare(m, register) ==
    With(Cpu_read(m, m.cpu.absolute_address), LAMBDA m1 :
        LET data == m1.ret
            reg == get_register(m1, register)
            result == (reg - data + 256) % 256
            m2 == set_flag(m1, FlagC, reg >= data)
            m3 == set_flag(m2, FlagZ, reg = data)
        IN  Ret(set_flag(m3, FlagN, is_bit_set(result, 7)), 2))

\* increment: register "None" is the memory operand; value is 1 or -1
increment(m, register, value) ==
    IF register # "None"
    THEN LET result == (get_register(m, register) + value + 256) % 256
         IN  Ret(set_zn(set_register(m, register, result), result), 2)
    ELSE With(Cpu_read(m, m.cpu.absolute_address), LAMBDA m1 :
         With(Cpu_write(m1, m1.cpu.absolute_address,
                        (m1.ret + value + 256) % 256), LAMBDA m2 :
             Ret(set_zn(m2, (m1.ret + value + 256) % 256),
                 4 + BoolBit(m2.cpu.address_will_not_cross_page))))

load(m, register) ==
    With(Cpu_read(m, m.cpu.absolute_address), LAMBDA m1 :
        Ret(set_zn(set_register(m1, register, m1.ret), m1.ret), 2))

\* the byte a shift or rotate of data yields, the carry flag being c
ShiftResult(data, direction, rotate, c) ==
    LET shifted == IF direction = "Left" THEN Shl8(data) ELSE data \div 2
    IN  IF rotate
        THEN (shifted + BoolBit(c) * (IF direction = "Left" THEN 1 ELSE 128))
             % 256
        ELSE shifted

shift(m, direction, rotate) ==
    IF m.cpu.operate_on_accumulator
    THEN LET data == m.cpu.accumulator
             carry == is_bit_set(data, IF direction = "Left" THEN 7 ELSE 0)
             result == ShiftResult(data, direction, rotate,
                                   intersects(m.cpu.status, FlagC))
         IN  Ret([set_zn(set_flag(m, FlagC, carry), result) EXCEPT
                     !.cpu.accumulator = result,
                     !.cpu.operate_on_accumulator = FALSE], 2)
    ELSE With(Cpu_read(m, m.cpu.absolute_address), LAMBDA m1 :
         LET data == m1.ret
             carry == is_bit_set(data, IF direction = "Left" THEN 7 ELSE 0)
             result == ShiftResult(data, direction, rotate,
                                   intersects(m1.cpu.status, FlagC))
         IN  With(Cpu_write(m1, m1.cpu.absolute_address, result), LAMBDA m2 :
                 Ret(set_zn(set_flag(m2, FlagC, carry), result),
                     4 + BoolBit(m2.cpu.address_will_not_cross_page))))

\* transfer: "None" is the stack pointer
transfer(m, source, destination) ==
    IF destination = "None"
    THEN Ret([m EXCEPT !.cpu.stack_pointer = get_register(m, source)], 2)
    ELSE LET data == IF source = "None" THEN m.cpu.stack_pointer
                     ELSE get_register(m, source)
         IN  Ret(set_zn(set_register(m, destination, data), data), 2)

(***************************************************************************)
(* Cpu: instruction implementations.  m.ret is the base cycle cost.        *)
(***************************************************************************)
adc(m) ==
    With(Cpu_read(m, m.cpu.absolute_address), LAMBDA m1 : add(m1, m1.ret))

bit(m) ==
    With(Cpu_read(m, m.cpu.absolute_address), LAMBDA m1 :
        LET data == m1.ret
            result == And8(m1.cpu.accumulator, data)
            m2 == set_flag(m1, FlagZ, result = 0)
            m3 == set_flag(m2, FlagV, is_bit_set(data, 6))
        IN  Ret(set_flag(m3, FlagN, is_bit_set(data, 7)), 2))

\* brk pushing the address of the byte after the opcode
brk_pushing_operand_address(m) ==
    LET pc1 == m.cpu.program_counter
        status == SetBit(m.cpu.status, FlagB, TRUE)
    IN  With(read_u16_absolute(
                 push(push(push(m, high_byte(pc1)), low_byte(pc1)), status),
                 65534),
             LAMBDA m2 : Ret([m2 EXCEPT !.cpu.program_counter = m2.ret], 7))

brk(m) ==
    LET pc1 == Wrap16(m.cpu.program_counter + 1)
        status == SetBit(m.cpu.status, FlagB, TRUE)
    IN  With(read_u16_absolute(
                 push(push(push(Checked16(m, m.cpu.program_counter + 1),
                                high_byte(pc1)), low_byte(pc1)), status),
                 65534),
             LAMBDA m2 : Ret([m2 EXCEPT !.cpu.program_counter = m2.ret], 7))

jmp(m) == Ret([m EXCEPT !.cpu.program_counter = m.cpu.absolute_address], 1)

jsr(m) ==
    LET pc1 == (m.cpu.program_counter + 65535) % 65536
    IN  Ret([push(push(Checked16(m, m.cpu.program_counter - 1),
                       high_byte(pc1)), low_byte(pc1)) EXCEPT
                !.cpu.program_counter = m.cpu.absolute_address], 4)

pha(m) == Ret(push(m, m.cpu.accumulator), 3)

php(m) ==
    Ret(push(m, SetBit(SetBit(m.cpu.status, FlagB, TRUE), 5, TRUE)), 3)

pla(m) ==
    With(pull(m), LAMBDA m1 :
        Ret(set_zn([m1 EXCEPT !.cpu.accumulator = m1.ret], m1.ret), 4))

plp(m) ==
    With(pull(m), LAMBDA m1 :
        Ret([m1 EXCEPT !.cpu.status =
                SetBit(SetBit(m1.ret, 5, FALSE), FlagB, FALSE)], 4))

rti(m) ==
    With(pull(m), LAMBDA status :
    With(pull(status), LAMBDA pc_low :
    With(pull(pc_low), LAMBDA pc_high :
        Ret([pc_high EXCEPT
                !.cpu.status = SetBit(status.ret, FlagB, FALSE),
                !.cpu.program_counter =
                    concat_bytes(pc_low.ret, pc_high.ret)],
            6))))

rts(m) ==
    With(pull(m), LAMBDA pc_low :
    With(pull(pc_low), LAMBDA pc_high :
        Ret(Checked16([pc_high EXCEPT !.cpu.program_counter =
                          Wrap16(concat_bytes(pc_low.ret, pc_high.ret) + 1)],
                      concat_bytes(pc_low.ret, pc_high.ret) + 1), 6)))

sbc(m) ==
    With(Cpu_read(m, m.cpu.absolute_address),
         LAMBDA m1 : add(m1, 255 - m1.ret))

sta(m) ==
    Ret(Cpu_write(m, m.cpu.absolute_address, m.cpu.accumulator),
        2 + BoolBit(m.cpu.address_will_not_cross_page))

stx(m) == Ret(Cpu_write(m, m.cpu.absolute_address, m.cpu.x_register), 2)

sty(m) == Ret(Cpu_write(m, m.cpu.absolute_address, m.cpu.y_register), 2)

\* Illegal instruction implementations: the cost is the first half's
dcp(m) ==
    With(increment(m, "None", -1), LAMBDA m1 : Ret(compare(m1, "A"), m1.ret))

isc(m) ==
    With(increment(m, "None", 1), LAMBDA m1 : Ret(sbc(m1), m1.ret))

lax(m) == load(load(m, "A"), "X")

rla(m) ==
    With(shift(m, "Left", TRUE), LAMBDA m1 : Ret(bitwise(m1, "And"), m1.ret))

rra(m) ==
    With(shift(m, "Right", TRUE), LAMBDA m1 : Ret(adc(m1), m1.ret))

sax(m) ==
    Ret(Cpu_write(m, m.cpu.absolute_address,
                  And8(m.cpu.accumulator, m.cpu.x_register)), 2)

slo(m) ==
    With(shift(m, "Left", FALSE), LAMBDA m1 : Ret(bitwise(m1, "Or"), m1.ret))

sre(m) ==
    With(shift(m, "Right", FALSE), LAMBDA m1 : Ret(bitwise(m1, "Xor"), m1.ret))

(***************************************************************************)
(* Cpu: addressing modes.  m.ret is the added cycle cost.                  *)
(***************************************************************************)
\* absolute_indexed charging the page crossing whether or not one happens
absolute_indexed_always_charging(m, register) ==
    With(read_u16(m), LAMBDA m1 :
        LET address == m1.ret
            target == Wrap16(address + get_register(m1, register))
            same_page == (high_byte(address) = high_byte(target))
        IN  Ret([m1 EXCEPT !.cpu.absolute_address = target,
                           !.cpu.address_will_not_cross_page = same_page],
                3))

absolute_indexed(m, register) ==
    With(read_u16(m), LAMBDA m1 :
        LET address == m1.ret
            target == Wrap16(address + get_register(m1, register))
            same_page == (high_byte(address) = high_byte(target))
        IN  Ret([m1 EXCEPT !.cpu.absolute_address = target,
                           !.cpu.address_will_not_cross_page = same_page],
                IF ~same_page THEN 3 ELSE 2))

zero_page_indexed(m, register) ==
    With(Cpu_read(m, m.cpu.program_counter), LAMBDA m1 :
        Ret([m1 EXCEPT !.cpu.absolute_address =
                (m1.ret + get_register(m, register)) % 256], 2))

implicit(m) == Ret(AddPc(m, -1), 0)

accumulator(m) ==
    Ret([AddPc(m, -1) EXCEPT !.cpu.operate_on_accumulator = TRUE], 0)

immediate(m) ==
    Ret([m EXCEPT !.cpu.absolute_address = m.cpu.program_counter], 0)

zero_page(m) ==
    With(Cpu_read(m, m.cpu.program_counter), LAMBDA m1 :
        Ret([m1 EXCEPT !.cpu.absolute_address = m1.ret], 1))

\* relative with a page-crossing mark that stays once it is set
relative_keeping_the_mark(m) ==
    With(Cpu_read(m, m.cpu.program_counter), LAMBDA m1 :
        LET offset == AsSigned8(m1.ret)
            pc == m1.cpu.program_counter
            address == (pc + offset + 1 + 65536) % 65536
        IN  Ret([m1 EXCEPT
                    !.cpu.absolute_address = address,
                    !.cpu.branch_will_cross_page =
                        @ \/ (high_byte(address) # high_byte(Wrap16(pc + 1)))],
                1))

relative(m) ==
    With(Cpu_read(m, m.cpu.program_counter), LAMBDA m1 :
        LET offset == AsSigned8(m1.ret)
            pc == m1.cpu.program_counter
            address == (pc + offset + 1 + 65536) % 65536
        IN  Ret(Checked16([m1 EXCEPT
                    !.cpu.absolute_address = address,
                    !.cpu.branch_will_cross_page =
                        (high_byte(address) # high_byte(Wrap16(pc + 1)))],
                    pc + 1),
                1))

absolute(m) ==
    With(read_u16(m), LAMBDA m1 :
        Ret([m1 EXCEPT !.cpu.absolute_address = m1.ret], 2))

\* indirect that reads the high byte from the address after the pointer
indirect_without_wrap(m) ==
    With(read_u16(m), LAMBDA m1 :
    With(Cpu_read(m1, m1.ret), LAMBDA low :
    With(Cpu_read(low, Wrap16(m1.ret + 1)), LAMBDA high :
        Ret([high EXCEPT !.cpu.absolute_address =
                concat_bytes(low.ret, high.ret)], 4))))

indirect(m) ==
    With(read_u16(m), LAMBDA m1 :
    With(Cpu_read(m1, m1.ret), LAMBDA low :
    With(Cpu_read(low, IF low_byte(m1.ret) = 255
                       THEN m1.ret - 255 ELSE m1.ret + 1), LAMBDA high :
        Ret([high EXCEPT !.cpu.absolute_address =
                concat_bytes(low.ret, high.ret)], 4))))

\* the word at zero-page address a, wrapping in the zero page: m.ret
ReadZeroPageWord(m, a) ==
    With(Cpu_read(m, a), LAMBDA low :
    With(Cpu_read(low, (a + 1) % 256), LAMBDA high :
        Ret(high, concat_bytes(low.ret, high.ret))))

indexed_indirect(m) ==
    With(Cpu_read(m, m.cpu.program_counter), LAMBDA m1 :
    With(ReadZeroPageWord(m1, (m1.ret + m1.cpu.x_register) % 256), LAMBDA m2 :
        Ret([m2 EXCEPT !.cpu.absolute_address = m2.ret], 4)))

indirect_indexed(m) ==
    With(Cpu_read(m, m.cpu.program_counter), LAMBDA m1 :
    With(ReadZeroPageWord(m1, m1.ret), LAMBDA m2 :
        LET address == m2.ret
            target == Wrap16(address + m2.cpu.y_register)
            same_page == (high_byte(address) = high_byte(target))
        IN  Ret([m2 EXCEPT !.cpu.absolute_address = target,
                           !.cpu.address_will_not_cross_page = same_page],
                IF ~same_page THEN 4 ELSE 3)))

(***************************************************************************)
(* Cpu: execute, clock and the interrupt entries.                          *)
(***************************************************************************)
AddressingModeCycles(m, addr_mode) ==
    CASE addr_mode = "Implicit" -> implicit(m)
      [] addr_mode = "Accumulator" -> accumulator(m)
      [] addr_mode = "Immediate" -> immediate(m)
      [] addr_mode = "ZeroPage" -> zero_page(m)
      [] addr_mode = "ZeroPageX" -> zero_page_indexed(m, "X")
      [] addr_mode = "ZeroPageY" -> zero_page_indexed(m, "Y")
      [] addr_mode = "Relative" -> relative(m)
      [] addr_mode = "Absolute" -> absolute(m)
      [] addr_mode = "AbsoluteX" -> absolute_indexed(m, "X")
      [] addr_mode = "AbsoluteY" -> absolute_indexed(m, "Y")
      [] addr_mode = "Indirect" -> indirect(m)
      [] addr_mode = "IndexedIndirect" -> indexed_indirect(m)
      [] addr_mode = "IndirectIndexed" -> indirect_indexed(m)

InstructionCycles(m, instruction) ==
    CASE instruction = "Adc" -> adc(m)
      [] instruction = "And" -> bitwise(m, "And")
      [] instruction = "Asl" -> shift(m, "Left", FALSE)
      [] instruction = "Bcc" -> branch(m, "CarryClear")
      [] instruction = "Bcs" -> branch(m, "CarrySet")
      [] instruction = "Beq" -> branch(m, "Equal")
      [] instruction = "Bit" -> bit(m)
      [] instruction = "Bmi" -> branch(m, "Minus")
      [] instruction = "Bne" -> branch(m, "NotEqual")
      [] instruction = "Bpl" -> branch(m, "Plus")
      [] instruction = "Brk" -> brk(m)
      [] instruction = "Bvc" -> branch(m, "OverflowClear")
      [] instruction = "Bvs" -> branch(m, "OverflowSet")
      [] instruction = "Clc" -> Ret(set_flag(m, FlagC, FALSE), 2)
      [] instruction = "Cld" -> Ret(set_flag(m, FlagD, FALSE), 2)
      [] instruction = "Cli" -> Ret(set_flag(m, FlagI, FALSE), 2)
      [] instruction = "Clv" -> Ret(set_flag(m, FlagV, FALSE), 2)
      [] instruction = "Cmp" -> compare(m, "A")
      [] instruction = "Cpx" -> compare(m, "X")
      [] instruction = "Cpy" -> compare(m, "Y")
      [] instruction = "Dec" -> increment(m, "None", -1)
      [] instruction = "Dex" -> increment(m, "X", -1)
      [] instruction = "Dey" -> increment(m, "Y", -1)
      [] instruction = "Eor" -> bitwise(m, "Xor")
      [] instruction = "Inc" -> increment(m, "None", 1)
      [] instruction = "Inx" -> increment(m, "X", 1)
      [] instruction = "Iny" -> increment(m, "Y", 1)
      [] instruction = "Jmp" -> jmp(m)
      [] instruction = "Jsr" -> jsr(m)
      [] instruction = "Lda" -> load(m, "A")
      [] instruction = "Ldx" -> load(m, "X")
      [] instruction = "Ldy" -> load(m, "Y")
      [] instruction = "Lsr" -> shift(m, "Right", FALSE)
      [] instruction = "Nop" -> Ret(m, 2)
      [] instruction = "Ora" -> bitwise(m, "Or")
      [] instruction = "Pha" -> pha(m)
      [] instruction = "Php" -> php(m)
      [] instruction = "Pla" -> pla(m)
      [] instruction = "Plp" -> plp(m)
      [] instruction = "Rol" -> shift(m, "Left", TRUE)
      [] instruction = "Ror" -> shift(m, "Right", TRUE)
      [] instruction = "Rti" -> rti(m)
      [] instruction = "Rts" -> rts(m)
      [] instruction = "Sbc" -> sbc(m)
      [] instruction = "Sec" -> Ret(set_flag(m, FlagC, TRUE), 2)
      [] instruction = "Sed" -> Ret(set_flag(m, FlagD, TRUE), 2)
      [] instruction = "Sei" -> Ret(set_flag(m, FlagI, TRUE), 2)
      [] instruction = "Sta" -> sta(m)
      [] instruction = "Stx" -> stx(m)
      [] instruction = "Sty" -> sty(m)
      [] instruction = "Tax" -> transfer(m, "A", "X")
      [] instruction = "Tay" -> transfer(m, "A", "Y")
      [] instruction = "Tsx" -> transfer(m, "None", "X")
      [] instruction = "Txa" -> transfer(m, "X", "A")
      [] instruction = "Txs" -> transfer(m, "X", "None")
      [] instruction = "Tya" -> transfer(m, "Y", "A")
      [] instruction = "Dcp" -> dcp(m)
      [] instruction = "Isc" -> isc(m)
      [] instruction = "Lax" -> lax(m)
      [] instruction = "Rla" -> rla(m)
      [] instruction = "Rra" -> rra(m)
      [] instruction = "Sax" -> sax(m)
      [] instruction = "Slo" -> slo(m)
      [] instruction = "Sre" -> sre(m)
      [] instruction = "Usbc" -> sbc(m)

\* execute: instruction is the pair decode returned; m.ret is the cycles
execute(m, instruction) ==
    With(AddressingModeCycles(
             AddPc([m EXCEPT !.cpu.instruction_number = @ + 1], 1),
             instruction[2]), LAMBDA m1 :
    With(InstructionCycles(AddPc(m1, 1), instruction[1]), LAMBDA m2 :
        LET cycles == m1.ret + m2.ret
        IN  Ret([m2 EXCEPT !.cpu.address_will_not_cross_page = FALSE,
                           !.cpu.cycle_number = @ + cycles,
                           !.obs.cycles = cycles],
                cycles)))

\* execute_next with the opcodes that have no arm run as a NOP
execute_next_lenient(m) ==
    With(Cpu_read(m, m.cpu.program_counter), LAMBDA m1 :
    With(CpuInstruction_decode(m1.ret), LAMBDA instruction :
        execute([m1 EXCEPT !.obs.opcode = m1.ret],
                IF instruction = Unmapped THEN <<"Nop", "Implicit">>
                ELSE instruction)))

\* execute_next: decode panics on an opcode it has no arm for, and then
\* execute is not called
execute_next(m) ==
    With(Cpu_read(m, m.cpu.program_counter), LAMBDA m1 :
    With(CpuInstruction_decode(m1.ret), LAMBDA instruction :
        IF instruction = Unmapped
        THEN [m1 EXCEPT !.obs.opcode = m1.ret, !.trap = "unsupported_opcode"]
        ELSE execute([m1 EXCEPT !.obs.opcode = m1.ret], instruction)))

\* Cpu::clock starting the next instruction one call early
Cpu_clock_early(m) ==
    With(IF m.cpu.cycle_wait <= 1
         THEN execute_next([m EXCEPT !.cpu.is_instruction_finished = TRUE,
                                     !.obs.cpu_clocks = @ + 1])
         ELSE Ret([m EXCEPT !.cpu.is_instruction_finished = FALSE,
                            !.obs.cpu_clocks = @ + 1], m.cpu.cycle_wait),
         LAMBDA m1 :
        IF m1.trap # "none" THEN m1
        ELSE [m1 EXCEPT !.cpu.cycle_wait = (m1.ret + 255) % 256])

\* Cpu::clock: m.ret of the first step is the wait counter before the
\* decrement, the cycles of the instruction when one was executed
Cpu_clock(m) ==
    With(IF m.cpu.cycle_wait = 0
         THEN execute_next([m EXCEPT !.cpu.is_instruction_finished = TRUE,
                                     !.obs.cpu_clocks = @ + 1])
         ELSE Ret([m EXCEPT !.cpu.is_instruction_finished = FALSE,
                            !.obs.cpu_clocks = @ + 1], m.cpu.cycle_wait),
         LAMBDA m1 :
        IF m1.trap # "none" THEN m1
        ELSE [m1 EXCEPT !.cpu.cycle_wait = (m1.ret + 255) % 256])

\* Cpu::nmi that waits seven cycles
Cpu_nmi_seven_cycles(m) ==
    LET pc == m.cpu.program_counter
    IN  With(read_u16_absolute(
                 push(push(push(m, high_byte(pc)), low_byte(pc)),
                      m.cpu.status),
                 65530),
             LAMBDA m2 : [m2 EXCEPT !.cpu.program_counter = m2.ret,
                                    !.cpu.cycle_wait = 7,
                                    !.obs.nmi_calls = @ + 1])

Cpu_nmi(m) ==
    LET pc == m.cpu.program_counter
    IN  With(read_u16_absolute(
                 push(push(push(m, high_byte(pc)), low_byte(pc)),
                      m.cpu.status),
                 65530),
             LAMBDA m2 : [m2 EXCEPT !.cpu.program_counter = m2.ret,
                                    !.cpu.cycle_wait = 8,
                                    !.obs.nmi_calls = @ + 1])

\* Cpu::irq as the specification words it: the NMI entry through the
\* vector at 0xFFFE, skipped while interrupt-disable is set
Cpu_irq(m) ==
    IF intersects(m.cpu.status, FlagI) THEN m
    ELSE LET pc == m.cpu.program_counter
         IN  With(read_u16_absolute(
                      push(push(push(m, high_byte(pc)), low_byte(pc)),
                           m.cpu.status),
                      65534),
                  LAMBDA m2 : [m2 EXCEPT !.cpu.program_counter = m2.ret,
                                         !.cpu.cycle_wait = 8])

Cpu_reset(m) ==
    With(read_u16_absolute(
             set_flag([m EXCEPT !.cpu.stack_pointer = (@ + 253) % 256],
                      FlagI, TRUE),
             65532),
         LAMBDA m2 : [m2 EXCEPT !.cpu.program_counter = m2.ret,
                                !.cpu.instruction_number = 0,
                                !.cpu.cycle_number = 7])

(***************************************************************************)
(* Bus::clock (src/bus.rs).                                                *)
(***************************************************************************)
\* lines 144-164: the Cpu's cycle, or the cycle of the OAM DMA in its place
CpuOrDma(m) ==
    IF ~m.bus.is_dma_active THEN Cpu_clock(m)
    ELSE IF m.bus.dma_dummy
    THEN IF m.bus.cycle % 2 = 1 THEN [m EXCEPT !.bus.dma_dummy = FALSE] ELSE m
    ELSE IF m.bus.cycle % 2 = 0
    THEN With(Cpu_read(m, concat_bytes(m.ppu.oam_addr, m.ppu.oam_dma_page)),
              LAMBDA m1 : [m1 EXCEPT !.bus.dma_data = m1.ret])
    ELSE With(Ppu_cpu_write(m, 4, m.bus.dma_data), LAMBDA m1 :
             IF m1.ppu.oam_addr = 0
             THEN [m1 EXCEPT !.bus.is_dma_active = FALSE,
                             !.bus.dma_dummy = TRUE]
             ELSE m1)

\* the Ppu clocked twice
ClockPpuTwice(m) == Ppu_clock(Ppu_clock(m))

\* lines 168-170
ClockPpuThrice(m) == Ppu_clock(Ppu_clock(Ppu_clock(m)))

\* the NMI delivered with the request flag left set
DeliverNmi_keeps_request(m) ==
    IF ~m.bus.is_dma_active /\ m.ppu.emit_nmi THEN Cpu_nmi(m) ELSE m

\* lines 171-174
DeliverNmi(m) ==
    IF ~m.bus.is_dma_active /\ m.ppu.emit_nmi
    THEN [Cpu_nmi(m) EXCEPT !.ppu.emit_nmi = FALSE] ELSE m

\* lines 175-178
DeliverIrq(m) ==
    IF ~m.bus.is_dma_active /\ m.bus.emit_irq
    THEN [Cpu_irq(m) EXCEPT !.bus.emit_irq = FALSE] ELSE m

DeliverInterrupts(m) == DeliverIrq(DeliverNmi(m))

\* a panic inside Cpu::clock ends the call where it happens
Bus_clock(m) ==
    With(CpuOrDma(m), LAMBDA m1 :
        IF m1.trap # "none" THEN m1
        ELSE [DeliverInterrupts(ClockPpuThrice(m1)) EXCEPT
                 !.bus.cycle = @ + 1])

(***************************************************************************)
(* Construction (Cpu::new, Bus::new, Cartridge::new).                      *)
(***************************************************************************)
\* Cpu::new, the Default of every field
Cpu_new ==
    [accumulator |-> 0, x_register |-> 0, y_register |-> 0,
     program_counter |-> 0, stack_pointer |-> 0, status |-> 0,
     absolute_address |-> 0, operate_on_accumulator |-> FALSE,
     branch_will_cross_page |-> FALSE, address_will_not_cross_page |-> FALSE,
     instruction_number |-> 0, cycle_number |-> 0, cycle_wait |-> 0,
     is_instruction_finished |-> FALSE]

\* Bus::new on a zeroed RAM
Bus_new ==
    [ram |-> NoBytes,
     controller_1 |-> 0, controller_1_state |-> 0,
     controller_2 |-> 0, controller_2_state |-> 0,
     controller_strobe |-> FALSE,
     cycle |-> 0, is_dma_active |-> FALSE, dma_dummy |-> TRUE,
     dma_data |-> 0, emit_irq |-> FALSE]

\* Bus::set_controller_state
Bus_set_controller_state(m, controller_1_state, controller_2_state) ==
    [m EXCEPT !.bus.controller_1 = controller_1_state,
              !.bus.controller_2 = controller_2_state]

\* Cartridge::new for an iNES image of mapper 0 with one PRG block: prg and
\* chr are the bytes of the image that are not 0.
Cartridge_new(prg, chr, chr_rom_blocks, mirror_flag) ==
    [mapper_id |-> 0, prg_rom |-> prg, prg_rom_blocks |-> 1,
     chr_rom |-> chr, has_chr_ram |-> (chr_rom_blocks = 0),
     mirror_flag |-> mirror_flag]

\* the history the properties read; no operator of the machine reads it
VARIABLE hist

vars == <<cpu, bus, ppu, cart, trap, hist>>

Machine == [cpu |-> cpu, bus |-> bus, ppu |-> ppu, cart |-> cart,
            trap |-> trap, ret |-> 0, obs |-> NoObs]

\* the variables take the fields of machine n
Becomes(n) ==
    /\ cpu' = n.cpu
    /\ bus' = n.bus
    /\ ppu' = n.ppu
    /\ cart' = n.cart
    /\ trap' = n.trap

(***************************************************************************)
(* SpecPpu: a constructed Ppu under Ppu::clock, one dot per step, with the *)
(* program's writes to PPUCTRL and PPUMASK drawn before the dots start.    *)
(***************************************************************************)
MaxDots == 90000
WriteWindow == 1

\* CHR-ROM images: all transparent, and tile 0 opaque in both planes
BlankChr == NoBytes
OpaqueChr == [a \in 0..15 |-> 255]

PpuCartridges ==
    {Cartridge_new(NoBytes, BlankChr, 1, 0), Cartridge_new(NoBytes, OpaqueChr, 1, 0)}

PpuSetupWrites == {<<0, 128>>, <<1, 8>>}

\* op: the last operation; obs: what it observed; dots: the Ppu::clock calls
\* made; line_calls: those made on the scanline the Ppu is on; clocks: the
\* Cpu::clock calls made; idle_due: the calls the instruction executed last
\* has yet to wait; inputs, decoded: the opcodes to decode and the pairs
\* decoded; dma_calls: the Bus::clock calls in a row that began with the DMA
\* active; dma_trigger: the bus cycle of the call that started the last DMA;
\* nmi_requests, nmi_calls: the NMI requests raised and the Cpu::nmi calls
\* made so far; fresh_read: the status register was read and vblank has not
\* been entered since; was_fresh: fresh_read before the last call;
\* set_reads: the status reads that returned vblank set; input: the bytes
\* handed to a loader; result: what the loader returned; last: the opcode
\* and the cycles of the instruction executed last and the Cpu before it;
\* prior: the same of the instruction executed before that one;
\* since_nmi: the Cpu::clock calls made since the last Cpu::nmi call, -1
\* when there was none; sets, writes, reads: the calls that set an input,
\* wrote a register and read one
NoHistory ==
    [op |-> "new", obs |-> NoObs, dots |-> 0, line_calls |-> 0,
     clocks |-> 0, idle_due |-> 0, inputs |-> <<>>, decoded |-> <<>>,
     dma_calls |-> 0, dma_trigger |-> 0, nmi_requests |-> 0, nmi_calls |-> 0,
     fresh_read |-> FALSE, was_fresh |-> FALSE, set_reads |-> 0,
     input |-> <<>>, result |-> [kind |-> "none"],
     last |-> [opcode |-> -1], prior |-> [opcode |-> -1], since_nmi |-> -1,
     sets |-> 0, writes |-> 0, reads |-> 0]

InitPpu ==
    /\ cpu = Cpu_new
    /\ bus = Bus_new
    /\ ppu = Ppu_new
    /\ cart \in PpuCartridges
    /\ trap = "none"
    /\ hist = NoHistory

PpuClock ==
    /\ hist.dots < MaxDots
    /\ Becomes(Ppu_clock(Machine))
    /\ hist' = [hist EXCEPT
                    !.op = "clock",
                    !.dots = @ + 1,
                    !.line_calls = IF ppu'.scanline = ppu.scanline
                                   THEN @ + 1 ELSE 0]

PpuRegisterWrite ==
    /\ hist.dots < WriteWindow
    /\ \E w \in PpuSetupWrites :
          Becomes(Ppu_cpu_write(Machine, w[1], w[2]))
    /\ hist' = [hist EXCEPT !.op = "write"]

NextPpu == PpuClock \/ PpuRegisterWrite

SpecPpu == InitPpu /\ [][NextPpu]_vars

(***************************************************************************)
(* Nes::new (src/lib.rs) and ROM images.  PRG-ROM is one 16 KiB block,     *)
(* seen at 0x8000 and again at 0xC000: the vectors sit at its offsets      *)
(* 0x3FFA-0x3FFF.                                                          *)
(***************************************************************************)
\* the machine Nes::new leaves for a cartridge: Bus::new, then Cpu::reset
Nes_new(cartridge) ==
    [Cpu_reset([cpu |-> Cpu_new, bus |-> Bus_new, ppu |-> Ppu_new,
                cart |-> cartridge, trap |-> "none", ret |-> 0, obs |-> NoObs])
        EXCEPT !.ret = 0]

\* the bytes of a sequence placed from offset base on, as a sparse array
Bytes(code, base) ==
    [a \in {base + i - 1 : i \in {j \in 1..Len(code) : code[j] # 0}}
        |-> code[a - base + 1]]

\* the vectors: NMI, reset, IRQ/BRK
Vectors(nmi, reset, irq) ==
    Bytes(<<low_byte(nmi), high_byte(nmi), low_byte(reset), high_byte(reset),
            low_byte(irq), high_byte(irq)>>, 16378)

(***************************************************************************)
(* SpecCpu: a Cpu on a Bus under Cpu::clock alone.  The program sets X and *)
(* Y, then holds one opcode byte with two operand bytes; BRK leads to an   *)
(* RTI.                                                                    *)
(***************************************************************************)
MaxCpuClocks == 26

OperandPairs == {<<16, 0>>, <<255, 1>>, <<2, 32>>, <<40, 0>>, <<64, 0>>}

\* LDX #$01, LDY #$FF, the instruction; RTI at 0x8010
CpuTestPrg(opcode, operands) ==
    Bytes(<<162, 1, 160, 255, opcode, operands[1], operands[2]>>, 0)
    @@ Bytes(<<64>>, 16)
    @@ Vectors(32784, 32768, 32784)

InitCpu ==
    \E opcode \in 0..255, operands \in OperandPairs :
        LET n == Nes_new(Cartridge_new(CpuTestPrg(opcode, operands),
                                       NoBytes, 1, 0))
        IN  /\ cpu = n.cpu
            /\ bus = n.bus
            /\ ppu = n.ppu
            /\ cart = n.cart
            /\ trap = n.trap
            /\ hist = NoHistory

CpuClock ==
    /\ trap = "none"
    /\ hist.clocks < MaxCpuClocks
    /\ \E n \in {Cpu_clock(Machine)} :
           /\ Becomes(n)
           /\ hist' = [hist EXCEPT
                         !.op = "cpu_clock",
                         !.obs = n.obs,
                         !.clocks = @ + 1,
                         !.idle_due = IF n.obs.cycles >= 0 THEN n.obs.cycles - 1
                                      ELSE IF @ > 0 THEN @ - 1 ELSE 0,
                         !.last = IF n.obs.opcode = -1 THEN @
                                  ELSE [opcode |-> n.obs.opcode,
                                        cycles |-> n.obs.cycles,
                                        cpu |-> cpu],
                         !.prior = IF n.obs.opcode = -1 THEN @ ELSE hist.last,
                         !.since_nmi = IF @ >= 0 THEN @ + 1 ELSE @]

NextCpu == CpuClock

SpecCpu == InitCpu /\ [][NextCpu]_vars

(***************************************************************************)
(* SpecInterrupt: SpecCpu with one Cpu::nmi call made between two          *)
(* Cpu::clock calls, where Bus::clock makes it, while the third            *)
(* instruction of the program is under way.                                *)
(***************************************************************************)
NmiFirst == 5
NmiLast == 7

CpuNmi ==
    /\ trap = "none"
    /\ hist.nmi_calls = 0
    /\ hist.clocks \in NmiFirst..NmiLast
    /\ \E n \in {Cpu_nmi(Machine)} :
           /\ Becomes(n)
           /\ hist' = [hist EXCEPT
                         !.op = "nmi",
                         !.obs = n.obs,
                         !.nmi_calls = @ + 1,
                         !.idle_due = 8,
                         !.since_nmi = 0]

NextInterrupt == CpuClock \/ CpuNmi

SpecInterrupt == InitCpu /\ [][NextInterrupt]_vars

(***************************************************************************)
(* SpecTiming: SpecCpu on programs that exercise the cycle costs: two      *)
(* branches at the end of a page, and an instruction that indexes an       *)
(* address by 1 or by 255.                                                 *)
(***************************************************************************)
\* BPL, BMI, BVC, BVS, BCC, BCS, BNE, BEQ
BranchOpcodes == {16, 48, 80, 112, 144, 176, 208, 240}

\* forward in the page or past its end, and backward
BranchOffsets == {2, 6, 252}

\* NOP NOP; LDA #$80; LDA #$00; SEC NOP: the flags the branches test
FlagSetups == {<<234, 234>>, <<169, 128>>, <<169, 0>>, <<56, 234>>}

\* from 0x80F6: the flag setup, the first branch, and the second branch at
\* 0x80FA, 0x80FC, 0x80FE and 0x8100; RTI at 0x8010 for the BRK that the
\* empty ROM holds
BranchProgram(setup, first, second) ==
    Bytes(setup \o first \o second \o second \o second \o second, 246)
    @@ Bytes(<<64>>, 16)
    @@ Vectors(32784, 33014, 32784)

\* LDA #$80; STA $10; LDX #index; LDY #index; the instruction with the
\* operand bytes 0x10 0x00: the address 0x0010 indexed, and the pointer at
\* 0x10 to 0x0080 indexed
IndexedProgram(index, opcode) ==
    Bytes(<<169, 128, 133, 16, 162, index, 160, index, opcode, 16, 0>>, 0)
    @@ Bytes(<<64>>, 16)
    @@ Vectors(32784, 32768, 32784)

TimingPrograms ==
    {BranchProgram(setup, <<first, first_offset>>, <<second, second_offset>>) :
        setup \in FlagSetups,
        first \in BranchOpcodes, first_offset \in BranchOffsets,
        second \in BranchOpcodes, second_offset \in BranchOffsets}
    \cup {IndexedProgram(index, opcode) : index \in {1, 255}, opcode \in 0..255}

InitTiming ==
    \E prg \in TimingPrograms :
        \E n \in {Nes_new(Cartridge_new(prg, NoBytes, 1, 0))} :
            /\ cpu = n.cpu
            /\ bus = n.bus
            /\ ppu = n.ppu
            /\ cart = n.cart
            /\ trap = n.trap
            /\ hist = NoHistory

NextTiming == CpuClock

SpecTiming == InitTiming /\ [][NextTiming]_vars

(***************************************************************************)
(* SpecJump: SpecCpu on programs that jump through a pointer: JMP (p) at   *)
(* 0x8040, with p at the end of a page, at the start of one, inside one,   *)
(* and at the end of the address space.                                    *)
(***************************************************************************)
\* 0x80FE, 0x80FF, 0x8100, 0x81FF, 0x8234 and 0xFFFF
JumpPointers == {33022, 33023, 33024, 33279, 33332, 65535}

\* the bytes around the page ends differ from each other, so that the byte
\* a pointer's high half comes from is told by its value; the IRQ vector
\* 0x8510 puts 0x85 at 0xFFFF
JumpProgram(pointer) ==
    Bytes(<<129>>, 0)
    @@ Bytes(<<108, low_byte(pointer), high_byte(pointer)>>, 64)
    @@ Bytes(<<48, 64, 130, 131>>, 254)
    @@ Bytes(<<80, 132, 133>>, 511)
    @@ Bytes(<<96, 134>>, 564)
    @@ Bytes(<<135>>, 16128)
    @@ Bytes(<<64>>, 1296)
    @@ Vectors(34064, 32832, 34064)

InitJump ==
    \E pointer \in JumpPointers :
        \E n \in {Nes_new(Cartridge_new(JumpProgram(pointer), NoBytes, 1, 0))} :
            /\ cpu = n.cpu
            /\ bus = n.bus
            /\ ppu = n.ppu
            /\ cart = n.cart
            /\ trap = n.trap
            /\ hist = NoHistory

NextJump == CpuClock

SpecJump == InitJump /\ [][NextJump]_vars

(***************************************************************************)
(* SpecWrap: SpecCpu on programs whose program counter or address          *)
(* arithmetic passes 0xFFFF, in a build with overflow checks and in one    *)
(* without.  The sums and differences the source writes with the plain +,  *)
(* +=, - and -= operators on u16 (src/cpu/mod.rs lines 134, 151, 510, 511, *)
(* 601, 602, 687, 812, 819, 863, 870 and 901) panic in the first build     *)
(* when they leave 0..65535 and wrap in the second; the sources hold no    *)
(* build profile, so both builds are considered.  The bytes at 0xFFFE and  *)
(* 0xFFFF are the IRQ/BRK vector of the cartridge.                         *)
(***************************************************************************)
MaxWrapClocks == 20

\* JMP entry at 0x8000, and the two bytes at 0xFFFE and 0xFFFF
EndProgram(entry, low, high) ==
    Bytes(<<76, low_byte(entry), high_byte(entry)>>, 0)
    @@ Vectors(32784, 32768, concat_bytes(low, high))

\* LDA #$FF; PHA; PHA; RTS: the return address pulled is 0xFFFF
ReturnProgram ==
    Bytes(<<169, 255, 72, 72, 96>>, 0) @@ Vectors(32784, 32768, 32784)

\* NOP at 0xFFFF; BRK at 0xFFFF with the vector 0x0010; LDA #$42, LDA $0010
\* and BNE +2 at 0xFFFE, with the operand at 0xFFFF; RTS to 0xFFFF; and
\* LDA #$42 at 0x8003, which passes no end
WrapPrograms ==
    {EndProgram(65535, 0, 234), EndProgram(65535, 16, 0),
     EndProgram(65534, 169, 66), EndProgram(65534, 173, 16),
     EndProgram(65534, 208, 2), ReturnProgram,
     Bytes(<<76, 3, 128, 169, 66>>, 0) @@ Vectors(32784, 32768, 32784)}

\* hist.input: whether the build checks for overflow
InitWrap ==
    \E prg \in WrapPrograms, overflow_checks \in BOOLEAN :
        LET n == Nes_new(Cartridge_new(prg, NoBytes, 1, 0))
        IN  /\ cpu = n.cpu
            /\ bus = n.bus
            /\ ppu = n.ppu
            /\ cart = n.cart
            /\ trap = n.trap
            /\ hist = [NoHistory EXCEPT !.input = <<overflow_checks>>]

\* Cpu::clock: the panic of an overflow check ends the run
WrapClock ==
    /\ trap = "none"
    /\ hist.clocks < MaxWrapClocks
    /\ \E n \in {Cpu_clock(Machine)} :
           /\ IF n.obs.overflow /\ hist.input[1]
              THEN trap' = "overflow" /\ UNCHANGED <<cpu, bus, ppu, cart>>
              ELSE Becomes(n)
           /\ hist' = [hist EXCEPT
                         !.op = "cpu_clock",
                         !.obs = n.obs,
                         !.clocks = @ + 1]

NextWrap == WrapClock

SpecWrap == InitWrap /\ [][NextWrap]_vars

(***************************************************************************)
(* SpecScroll: Ppu::increment_y_scroll applied to a Ppu whose VRAM address *)
(* and mask are the ones writes to 0x2006 and 0x2001 can leave: every row  *)
(* with fine Y 0, 6 or 7 in each nametable, rendering on or off.           *)
(***************************************************************************)
MaxIncrements == 2

\* fine Y << 12 | nametable Y << 11 | nametable X << 10 | coarse Y << 5
\* | coarse X
ScrollAddresses ==
    {4096 * fy + 2048 * ny + 1024 * nx + 32 * cy + cx :
        fy \in {0, 6, 7}, ny \in 0..1, nx \in 0..1, cy \in 0..31, cx \in {0, 31}}

\* rendering off, background shown, sprites shown
ScrollMasks == {0, 8, 16}

InitScroll ==
    \E v \in ScrollAddresses, mask \in ScrollMasks :
        \E n \in {Nes_new(Cartridge_new(NoBytes, NoBytes, 1, 0))} :
            /\ cpu = n.cpu
            /\ bus = n.bus
            /\ ppu = [n.ppu EXCEPT !.vram_addr = v, !.mask = mask]
            /\ cart = n.cart
            /\ trap = n.trap
            /\ hist = NoHistory

IncrementYScroll ==
    /\ hist.clocks < MaxIncrements
    /\ \E n \in {increment_y_scroll(Machine)} :
           /\ Becomes(n)
           /\ hist' = [hist EXCEPT !.op = "increment_y_scroll",
                                   !.clocks = @ + 1,
                                   !.input = <<ppu.vram_addr>>]

NextScroll == IncrementYScroll

SpecScroll == InitScroll /\ [][NextScroll]_vars

(***************************************************************************)
(* SpecPalette: Ppu::ppu_write to the palette addresses 0x3F00-0x3F1F and  *)
(* their repeats up to 0x3FFF, on a constructed Ppu.                       *)
(***************************************************************************)
MaxPaletteWrites == 2

\* the 32 entries, and two repeats of the first and the seventeenth
PaletteAddresses == (16128..16159) \cup {16160, 16176, 16368}

PaletteData == {0, 21, 42}

InitPalette ==
    \E n \in {Nes_new(Cartridge_new(NoBytes, NoBytes, 1, 0))} :
        /\ cpu = n.cpu
        /\ bus = n.bus
        /\ ppu = n.ppu
        /\ cart = n.cart
        /\ trap = n.trap
        /\ hist = NoHistory

PaletteWrite ==
    /\ hist.clocks < MaxPaletteWrites
    /\ \E addr \in PaletteAddresses, data \in PaletteData :
           \E n \in {ppu_write(Machine, addr, data)} :
               /\ Becomes(n)
               /\ hist' = [hist EXCEPT !.op = "ppu_write",
                                       !.clocks = @ + 1,
                                       !.input = <<addr, data>>]

NextPalette == PaletteWrite

SpecPalette == InitPalette /\ [][NextPalette]_vars

(***************************************************************************)
(* SpecSprite: the Ppu under Ppu::clock over the first scanlines of a      *)
(* frame, with background and sprites shown, a pattern table whose tile 0  *)
(* is opaque, and the OAM as an OAM DMA leaves it: two sprites on the top  *)
(* scanlines and the other 62 below the picture.                           *)
(***************************************************************************)
MaxSpriteDots == 1024

\* the X positions of sprite 0 and of sprite 1
SpriteColumns == {<<0, 0>>, <<16, 0>>, <<0, 16>>, <<200, 100>>}

\* sprites 0 and 1 at Y = 0 showing tile 0, every other sprite at Y = 240
SpriteOam(columns) ==
    [a \in 0..255 |->
        IF a \div 4 > 1 THEN (IF a % 4 = 0 THEN 240 ELSE 0)
        ELSE IF a % 4 = 3 THEN columns[(a \div 4) + 1] ELSE 0]

InitSprite ==
    \E columns \in SpriteColumns :
        /\ cpu = Cpu_new
        /\ bus = Bus_new
        /\ ppu = [Ppu_cpu_write([cpu |-> Cpu_new, bus |-> Bus_new,
                                 ppu |-> Ppu_new,
                                 cart |-> Cartridge_new(NoBytes, OpaqueChr, 1, 0),
                                 trap |-> "none", ret |-> 0, obs |-> NoObs],
                                1, 24).ppu
                    EXCEPT !.oam = SpriteOam(columns)]
        /\ cart = Cartridge_new(NoBytes, OpaqueChr, 1, 0)
        /\ trap = "none"
        /\ hist = NoHistory

SpriteClock ==
    /\ hist.dots < MaxSpriteDots
    /\ Becomes(Ppu_clock(Machine))
    /\ hist' = [hist EXCEPT !.op = "clock", !.dots = @ + 1]

NextSprite == SpriteClock

SpecSprite == InitSprite /\ [][NextSprite]_vars

(***************************************************************************)
(* SpecEvaluate: the Ppu under Ppu::clock over the first seventeen         *)
(* scanlines of a frame, with 8x8 and 8x16 sprites, a pattern table whose  *)
(* tile 0 is opaque, and four OAM contents: ten sprites on the top         *)
(* scanlines, three sprites that start on different scanlines near the     *)
(* right edge, no sprite in the picture, and a sprite at the right edge    *)
(* that ends one scanline before another sprite starts.                    *)
(***************************************************************************)
MaxEvalDots == 5800

\* the OAM indices of the ten sprites of the crowd
CrowdSprites == {1, 2, 5, 8, 13, 21, 34, 40, 55, 63}

\* ten sprites at Y = 0, each showing tile 0 with
\* three times its index as X; every other sprite at Y = 240
CrowdOam ==
    [a \in 0..255 |->
        IF (a \div 4) \in CrowdSprites
        THEN (IF a % 4 = 3 THEN 3 * (a \div 4) ELSE 0)
        ELSE (IF a % 4 = 0 THEN 240 ELSE 0)]

\* sprite 0 at Y = 0 and sprite 1 at Y = 1, both at X = 252; sprite 2 at
\* Y = 8 and X = 100; the last sprite at Y = 255; the others at Y = 240
StepsOam ==
    [a \in 0..255 |->
        IF a \div 4 = 0 THEN (IF a % 4 = 3 THEN 252 ELSE 0)
        ELSE IF a \div 4 = 1
        THEN (IF a % 4 = 0 THEN 1 ELSE IF a % 4 = 3 THEN 252 ELSE 0)
        ELSE IF a \div 4 = 2
        THEN (IF a % 4 = 0 THEN 8 ELSE IF a % 4 = 3 THEN 100 ELSE 0)
        ELSE IF a \div 4 = 63 THEN (IF a % 4 = 0 THEN 255 ELSE 0)
        ELSE (IF a % 4 = 0 THEN 240 ELSE 0)]

EmptyOam == [a \in 0..255 |-> IF a % 4 = 0 THEN 240 ELSE 0]

\* sprite 0 at X = 10 and sprite 1 at X = 252, both at Y = 0; sprite 2 at
\* Y = 8 and X = 100; the others at Y = 240
EdgeOam ==
    [a \in 0..255 |->
        IF a \div 4 = 0 THEN (IF a % 4 = 3 THEN 10 ELSE 0)
        ELSE IF a \div 4 = 1 THEN (IF a % 4 = 3 THEN 252 ELSE 0)
        ELSE IF a \div 4 = 2
        THEN (IF a % 4 = 0 THEN 8 ELSE IF a % 4 = 3 THEN 100 ELSE 0)
        ELSE (IF a % 4 = 0 THEN 240 ELSE 0)]

\* the OAM, the byte written to PPUCTRL (bit 5: 8x16 sprites) and the byte
\* written to PPUMASK (0x18: background and sprites shown)
EvalSetups ==
    {<<CrowdOam, 0, 24>>, <<CrowdOam, 32, 24>>, <<CrowdOam, 0, 0>>,
     <<StepsOam, 0, 24>>, <<StepsOam, 32, 24>>,
     <<EmptyOam, 0, 24>>, <<EmptyOam, 32, 24>>, <<EdgeOam, 0, 24>>}

InitEvaluate ==
    \E setup \in EvalSetups :
        /\ cpu = Cpu_new
        /\ bus = Bus_new
        /\ ppu = [Ppu_cpu_write(
                      Ppu_cpu_write([cpu |-> Cpu_new, bus |-> Bus_new,
                                     ppu |-> Ppu_new,
                                     cart |-> Cartridge_new(NoBytes, OpaqueChr, 1, 0),
                                     trap |-> "none", ret |-> 0, obs |-> NoObs],
                                    0, setup[2]),
                      1, setup[3]).ppu
                    EXCEPT !.oam = setup[1]]
        /\ cart = Cartridge_new(NoBytes, OpaqueChr, 1, 0)
        /\ trap = "none"
        /\ hist = NoHistory

EvaluateClock ==
    /\ hist.dots < MaxEvalDots
    /\ Becomes(Ppu_clock(Machine))
    /\ hist' = [hist EXCEPT !.op = "clock", !.dots = @ + 1]

NextEvaluate == EvaluateClock

SpecEvaluate == InitEvaluate /\ [][NextEvaluate]_vars

(***************************************************************************)
(* SpecVram: a constructed Ppu under writes to PPUCTRL, PPUMASK, PPUSCROLL *)
(* and PPUADDR, reads and writes of PPUDATA and Ppu::clock, in any order.  *)
(***************************************************************************)
MaxVramWrites == 5
MaxDataAccesses == 2
MaxVramDots == 3

\* PPUCTRL with both nametable bits, PPUMASK with background and sprites
\* shown, PPUSCROLL and PPUADDR with every bit set
VramWrites == {<<0, 3>>, <<1, 24>>, <<5, 255>>, <<6, 255>>}

InitVram ==
    \E n \in {Nes_new(Cartridge_new(NoBytes, NoBytes, 1, 0))} :
        /\ cpu = n.cpu
        /\ bus = n.bus
        /\ ppu = n.ppu
        /\ cart = n.cart
        /\ trap = n.trap
        /\ hist = NoHistory

VramRegisterWrite ==
    /\ hist.writes < MaxVramWrites
    /\ \E w \in VramWrites :
           \E n \in {Ppu_cpu_write(Machine, w[1], w[2])} :
               /\ Becomes(n)
               /\ hist' = [hist EXCEPT !.op = "write", !.writes = @ + 1,
                                       !.input = <<w[1]>>]

VramDataRead ==
    /\ hist.reads < MaxDataAccesses
    /\ \E n \in {Ppu_cpu_read(Machine, 7)} :
           /\ Becomes(n)
           /\ hist' = [hist EXCEPT !.op = "data_read", !.reads = @ + 1,
                                   !.input = <<7>>]

VramDataWrite ==
    /\ hist.reads < MaxDataAccesses
    /\ \E n \in {Ppu_cpu_write(Machine, 7, 0)} :
           /\ Becomes(n)
           /\ hist' = [hist EXCEPT !.op = "data_write", !.reads = @ + 1,
                                   !.input = <<7>>]

VramClock ==
    /\ hist.dots < MaxVramDots
    /\ \E n \in {Ppu_clock(Machine)} :
           /\ Becomes(n)
           /\ hist' = [hist EXCEPT !.op = "clock", !.dots = @ + 1]

NextVram == VramRegisterWrite \/ VramDataRead \/ VramDataWrite \/ VramClock

SpecVram == InitVram /\ [][NextVram]_vars

(***************************************************************************)
(* SpecToggle: a constructed Ppu under writes to each of its registers and *)
(* to OAMDMA, reads of each of its registers, and Ppu::clock, in any       *)
(* order.  The history keeps the last access.                              *)
(***************************************************************************)
MaxToggleWrites == 3
MaxToggleReads == 1
MaxToggleDots == 1

\* a byte for every register, two for PPUSCROLL and PPUADDR
ToggleWrites ==
    {<<0, 3>>, <<1, 24>>, <<2, 255>>, <<3, 7>>, <<4, 9>>, <<5, 61>>,
     <<5, 255>>, <<6, 33>>, <<6, 255>>, <<7, 5>>, <<16404, 2>>}

InitToggle ==
    \E n \in {Nes_new(Cartridge_new(NoBytes, NoBytes, 1, 0))} :
        /\ cpu = n.cpu
        /\ bus = n.bus
        /\ ppu = n.ppu
        /\ cart = n.cart
        /\ trap = n.trap
        /\ hist = NoHistory

ToggleWrite ==
    /\ hist.writes < MaxToggleWrites
    /\ \E w \in ToggleWrites :
           \E n \in {Ppu_cpu_write(Machine, w[1], w[2])} :
               /\ Becomes(n)
               /\ hist' = [hist EXCEPT !.op = "write", !.writes = @ + 1,
                                       !.input = w]

ToggleRead ==
    /\ hist.reads < MaxToggleReads
    /\ \E register \in 0..7 :
           \E n \in {Ppu_cpu_read(Machine, register)} :
               /\ Becomes(n)
               /\ hist' = [hist EXCEPT !.op = "read", !.reads = @ + 1,
                                       !.input = <<register>>]

ToggleClock ==
    /\ hist.dots < MaxToggleDots
    /\ \E n \in {Ppu_clock(Machine)} :
           /\ Becomes(n)
           /\ hist' = [hist EXCEPT !.op = "clock", !.dots = @ + 1]

NextToggle == ToggleWrite \/ ToggleRead \/ ToggleClock

SpecToggle == InitToggle /\ [][NextToggle]_vars

(***************************************************************************)
(* SpecController: the Bus under set_controller_state, writes to 0x4016    *)
(* and reads of 0x4016 and 0x4017.  The history keeps, from a write of 0   *)
(* to 0x4016 made while the strobe was 1, the two controller bytes as they *)
(* were at that write and the reads of each port made since.               *)
(***************************************************************************)
MaxControllerSets == 2
MaxStrobeWrites == 3
MaxControllerReads == 10

\* A Select Down Right and B Start Up Left; A alone and all but A
ControllerPairs == {<<165, 90>>, <<1, 254>>}

StrobeData == {0, 1}

InitController ==
    \E n \in {Nes_new(Cartridge_new(NoBytes, NoBytes, 1, 0))} :
        /\ cpu = n.cpu
        /\ bus = n.bus
        /\ ppu = n.ppu
        /\ cart = n.cart
        /\ trap = n.trap
        /\ hist = NoHistory

SetControllerState ==
    /\ hist.sets < MaxControllerSets
    /\ \E pair \in ControllerPairs :
           \E n \in {Bus_set_controller_state(Machine, pair[1], pair[2])} :
               /\ Becomes(n)
               /\ hist' = [hist EXCEPT !.op = "set_controller_state",
                                       !.sets = @ + 1]

WriteStrobe ==
    /\ hist.writes < MaxStrobeWrites
    /\ \E data \in StrobeData :
           \E n \in {Bus_cpu_write(Machine, 16406, data)} :
               /\ Becomes(n)
               /\ hist' = [hist EXCEPT
                             !.op = "write_strobe",
                             !.writes = @ + 1,
                             !.input =
                                 IF bus.controller_strobe /\ data = 0
                                 THEN <<bus.controller_1, bus.controller_2, 0, 0>>
                                 ELSE <<>>]

ReadController ==
    /\ hist.reads < MaxControllerReads
    /\ \E port \in {16406, 16407} :
           \E n \in {Cpu_read(Machine, port)} :
               /\ Becomes(n)
               /\ hist' = [hist EXCEPT
                             !.op = "read_controller",
                             !.reads = @ + 1,
                             !.result = [kind |-> "read", port |-> port,
                                         data |-> n.ret],
                             !.input =
                                 IF @ = <<>> THEN @
                                 ELSE [@ EXCEPT ![port - 16403] = @ + 1]]

NextController == SetControllerState \/ WriteStrobe \/ ReadController

SpecController == InitController /\ [][NextController]_vars

(***************************************************************************)
(* SpecMapper4: a console whose cartridge is an MMC3 with 8 PRG banks of   *)
(* 8 KiB, under CPU writes to the mapper's registers and the scanline      *)
(* counts the Ppu makes.  Every bank starts with its number plus 1.  The   *)
(* history keeps what the writes ask for: the bank-select byte, the bank   *)
(* written to R6 and whether a counter reload is requested.                *)
(***************************************************************************)
MaxMapperWrites == 5
MaxScanlineCounts == 4

Mmc3Prg == [a \in {8192 * bank : bank \in 0..7} |-> (a \div 8192) + 1]

\* bank select (R6 in mode 0, R6 in mode 1, R7), bank data, mirroring, IRQ
\* latch, IRQ reload, IRQ disable and IRQ enable
Mapper4Writes ==
    {<<32768, 6>>, <<32768, 70>>, <<32768, 7>>, <<32769, 2>>, <<32769, 5>>,
     <<40960, 1>>, <<49152, 0>>, <<49152, 2>>, <<49153, 0>>, <<57344, 0>>,
     <<57345, 0>>}

InitMapper4 ==
    \E n \in {Nes_new(Mapper4_fields(Mmc3Prg, 65536, 8192))} :
        /\ cpu = n.cpu
        /\ bus = n.bus
        /\ ppu = n.ppu
        /\ cart = n.cart
        /\ trap = n.trap
        /\ hist = [NoHistory EXCEPT
                     !.input = [select |-> 0, r6 |-> 0, reload |-> FALSE]]

Mapper4Write ==
    /\ hist.writes < MaxMapperWrites
    /\ \E w \in Mapper4Writes :
           \E n \in {Bus_cpu_write(Machine, w[1], w[2])} :
               /\ Becomes(n)
               /\ hist' = [hist EXCEPT
                             !.op = "mapper_write",
                             !.writes = @ + 1,
                             !.input.select =
                                 IF w[1] = 32768 THEN w[2] ELSE @,
                             !.input.r6 =
                                 IF w[1] = 32769 /\ hist.input.select % 8 = 6
                                 THEN w[2] ELSE @,
                             !.input.reload = (@ \/ w[1] = 49153)]

CountScanline ==
    /\ hist.clocks < MaxScanlineCounts
    /\ \E n \in {Cartridge_count_scanline(Machine)} :
           /\ Becomes(n)
           /\ hist' = [hist EXCEPT !.op = "count_scanline",
                                   !.clocks = @ + 1,
                                   !.input.reload = FALSE]

NextMapper4 == Mapper4Write \/ CountScanline

SpecMapper4 == InitMapper4 /\ [][NextMapper4]_vars

(***************************************************************************)
(* SpecBank: the console of SpecMapper4 (PRG-ROM of 8 banks of 8 KiB)      *)
(* under CPU writes of any bank number to R6 and R7 and CPU reads at the   *)
(* two ends of each 8 KiB window.  Mapper4::cpu_read indexes prg_rom with  *)
(* the translated address, and an index outside the Vec panics.            *)
(***************************************************************************)
MaxBankWrites == 4
MaxBankReads == 2

\* bank select (R6 and R7 in each PRG mode) and bank data
BankWrites ==
    {<<32768, select>> : select \in {6, 7, 70, 71}}
    \cup {<<32769, bank>> : bank \in {0, 5, 7, 8, 63, 64, 255}}

\* the first and the last address of each window
BankProbes == {32768, 40959, 40960, 49151, 49152, 57343, 57344, 65535}

InitBank ==
    \E n \in {Nes_new(Mapper4_fields(Mmc3Prg, 65536, 8192))} :
        /\ cpu = n.cpu
        /\ bus = n.bus
        /\ ppu = n.ppu
        /\ cart = n.cart
        /\ trap = n.trap
        /\ hist = NoHistory

BankWrite ==
    /\ trap = "none"
    /\ hist.writes < MaxBankWrites
    /\ \E w \in BankWrites :
           \E n \in {Bus_cpu_write(Machine, w[1], w[2])} :
               /\ Becomes(n)
               /\ hist' = [hist EXCEPT !.op = "bank_write",
                                       !.writes = @ + 1,
                                       !.input = w]

\* Bus::cpu_read of a cartridge address
BankRead ==
    /\ trap = "none"
    /\ hist.reads < MaxBankReads
    /\ \E addr \in BankProbes :
           /\ IF Mapper4_map_cpu_addr(cart, addr) >= cart.prg_rom_len
              THEN trap' = "index_out_of_bounds"
              ELSE trap' = trap
           /\ UNCHANGED <<cpu, bus, ppu, cart>>
           /\ hist' = [hist EXCEPT
                         !.op = "bank_read",
                         !.reads = @ + 1,
                         !.input = <<addr>>,
                         !.result = [kind |-> "read",
                                     index |-> Mapper4_map_cpu_addr(cart, addr)]]

NextBank == BankWrite \/ BankRead

SpecBank == InitBank /\ [][NextBank]_vars

(***************************************************************************)
(* SpecMapper1: a console whose cartridge is an MMC1 with 16 PRG banks of  *)
(* 16 KiB, under CPU writes to the serial port at 0x8000 (control) and at  *)
(* 0xE000 (PRG bank): a bit 0, a bit 1, or a reset.  Every bank starts     *)
(* with its number plus 1.                                                 *)
(***************************************************************************)
Mmc1Prg == [a \in {16384 * bank : bank \in 0..15} |-> (a \div 16384) + 1]

Mapper1Writes ==
    {<<addr, data>> : addr \in {32768, 57344}, data \in {0, 1, 128}}

InitMapper1 ==
    \E n \in {Nes_new(Mapper1_fields(Mmc1Prg, 262144, 8192))} :
        /\ cpu = n.cpu
        /\ bus = n.bus
        /\ ppu = n.ppu
        /\ cart = n.cart
        /\ trap = n.trap
        /\ hist = NoHistory

Mapper1Write ==
    \E w \in Mapper1Writes :
        \E n \in {Bus_cpu_write(Machine, w[1], w[2])} :
            /\ Becomes(n)
            /\ hist' = [hist EXCEPT !.op = "mapper_write"]

NextMapper1 == Mapper1Write

SpecMapper1 == InitMapper1 /\ [][NextMapper1]_vars

(***************************************************************************)
(* SpecSerial: the console of SpecMapper1 under a bounded number of CPU    *)
(* writes to the serial port, at addresses of each of the four registers   *)
(* (control, CHR bank 0, CHR bank 1, PRG bank): a bit 0, a bit 1 or a      *)
(* reset, and bytes with other bits set.  The history keeps the last write *)
(* and the bits written since the last reset or fifth write.               *)
(***************************************************************************)
MaxSerialWrites == 10

SerialWrites ==
    {<<addr, data>> : addr \in {32768, 40960, 49152, 57344},
                      data \in {0, 1, 128}}
    \cup {<<40959, 126>>, <<65535, 127>>, <<49153, 255>>}

InitSerial ==
    \E n \in {Nes_new(Mapper1_fields(Mmc1Prg, 262144, 8192))} :
        /\ cpu = n.cpu
        /\ bus = n.bus
        /\ ppu = n.ppu
        /\ cart = n.cart
        /\ trap = n.trap
        /\ hist = NoHistory

SerialWrite ==
    /\ hist.writes < MaxSerialWrites
    /\ \E w \in SerialWrites :
           \E n \in {Bus_cpu_write(Machine, w[1], w[2])} :
               /\ Becomes(n)
               /\ hist' = [hist EXCEPT
                             !.op = "serial_write",
                             !.writes = @ + 1,
                             !.input = w,
                             !.inputs = IF w[2] >= 128 \/ Len(@) = 4
                                        THEN <<>>
                                        ELSE Append(@, w[2] % 2)]

NextSerial == SerialWrite

SpecSerial == InitSerial /\ [][NextSerial]_vars

(***************************************************************************)
(* Spec: the console after Nes::new on a program, under Nes::clock.        *)
(***************************************************************************)
MaxBusCycles == 27600

\* Enables the NMI, then for ever writes PPUADDR once and reads PPUSTATUS
\* twice; the NMI handler at 0x8020 is an RTI.
PollProgram ==
    Bytes(<<169, 128, 141, 0, 32,
            141, 6, 32, 173, 2, 32, 173, 2, 32, 76, 5, 128>>, 0)
    @@ Bytes(<<64>>, 32)
    @@ Vectors(32800, 32768, 32800)

\* Writes oam_addr to OAMADDR, pads with a BIT $00 of three cycles when
\* asked to, starts the OAM DMA of page 2, and ends on a NOP and the
\* opcode 0x02, which decode has no arm for.
DmaProgram(oam_addr, pad) ==
    Bytes(<<169, oam_addr, 141, 3, 32>>
          \o (IF pad THEN <<36, 0>> ELSE <<>>)
          \o <<169, 2, 141, 20, 64, 234, 2>>, 0)
    @@ Vectors(32800, 32768, 32800)

\* Enables the NMI, counts X times 256 down, starts the OAM DMA of page 2
\* and loops; the NMI handler at 0x8020 is an RTI.
DelayedDmaProgram ==
    Bytes(<<169, 128, 141, 0, 32, 162, 21, 160, 0,
            136, 208, 253, 202, 208, 250,
            169, 2, 141, 20, 64, 76, 20, 128>>, 0)
    @@ Bytes(<<64>>, 32)
    @@ Vectors(32800, 32768, 32800)

Programs ==
    {PollProgram, DelayedDmaProgram,
     DmaProgram(0, FALSE), DmaProgram(0, TRUE),
     DmaProgram(128, FALSE), DmaProgram(128, TRUE)}

Init ==
    \E prg \in Programs :
        \E n \in {Nes_new(Cartridge_new(prg, NoBytes, 1, 0))} :
            /\ cpu = n.cpu
            /\ bus = n.bus
            /\ ppu = n.ppu
            /\ cart = n.cart
            /\ trap = n.trap
            /\ hist = NoHistory

\* Nes::clock, one Bus::clock call
NesClock ==
    /\ trap = "none"
    /\ bus.cycle < MaxBusCycles
    /\ \E n \in {Bus_clock(Machine)} :
           /\ Becomes(n)
           /\ hist' = [hist EXCEPT
                 !.op = "clock",
                 !.obs = n.obs,
                 !.dma_calls = IF bus.is_dma_active THEN @ + 1 ELSE 0,
                 !.dma_trigger =
                     IF ~bus.is_dma_active /\ n.bus.is_dma_active
                     THEN bus.cycle ELSE @,
                 !.nmi_requests = @ + n.obs.nmi_requests,
                 !.nmi_calls = @ + n.obs.nmi_calls,
                 !.was_fresh = hist.fresh_read,
                 !.fresh_read =
                     IF n.obs.vblank_entries > 0 THEN FALSE
                     ELSE IF n.obs.status_reads # <<>> THEN TRUE ELSE @,
                 !.set_reads =
                     @ + Cardinality({i \in DOMAIN n.obs.status_reads :
                                         vblank(n.obs.status_reads[i].data)})]

Next == NesClock

Spec == Init /\ [][Next]_vars

(***************************************************************************)
(* SpecDma: the console under Nes::clock on a program that writes OAMADDR  *)
(* and starts the OAM DMA of a page of PRG-ROM whose 256 bytes are not 0.  *)
(***************************************************************************)
MaxDmaCycles == 560

\* the page the DMA copies: 0x81, the CPU addresses 0x8100-0x81FF
DmaPage == high_byte(33024)

\* byte i of the page
DmaPageByte(i) == ((i * 7) % 251) + 1

\* LDA #oam_addr; STA $2003; LDA #$81; STA $4014; then JMP to itself
DmaPageProgram(oam_addr) ==
    Bytes(<<169, oam_addr, 141, 3, 32, 169, DmaPage, 141, 20, 64,
            76, 10, 128>>, 0)
    @@ Bytes([i \in 1..256 |-> DmaPageByte(i - 1)], 256)
    @@ Vectors(32800, 32768, 32800)

DmaStarts == {0, 1, 128, 255}

InitDma ==
    \E oam_addr \in DmaStarts :
        \E n \in {Nes_new(Cartridge_new(DmaPageProgram(oam_addr), NoBytes, 1, 0))} :
            /\ cpu = n.cpu
            /\ bus = n.bus
            /\ ppu = n.ppu
            /\ cart = n.cart
            /\ trap = n.trap
            /\ hist = [NoHistory EXCEPT !.input = <<oam_addr>>]

\* Nes::clock, one Bus::clock call
DmaClock ==
    /\ trap = "none"
    /\ bus.cycle < MaxDmaCycles
    /\ \E n \in {Bus_clock(Machine)} :
           /\ Becomes(n)
           /\ hist' = [hist EXCEPT
                 !.op = "clock",
                 !.dma_calls = IF bus.is_dma_active THEN @ + 1 ELSE 0]

NextDma == DmaClock

SpecDma == InitDma /\ [][NextDma]_vars

(***************************************************************************)
(* SpecIrq: the console with an MMC3 cartridge under Bus::clock, on        *)
(* programs that set the IRQ latch to 1, enable the IRQ and the            *)
(* background, and wait.  The scanline counter reaches 0 at dot 260 of     *)
(* scanline 1, in the 201st call.  The IRQ handler at 0x8040 is a jump to  *)
(* itself.  The loop that calls Bus::clock is that of Nes::tick, which     *)
(* goes on while no frame is ready.                                        *)
(***************************************************************************)
MaxIrqCycles == 800

\* 0x8040
IrqHandler == concat_bytes(64, 128)

\* LDA #$01; STA $C000; STA $C001; STA $E001; LDA #$08; STA $2001;
\* LDX #count; DEX; BNE -3: 20 cycles and 5 for every pass of the loop
IrqSetup(count) ==
    <<169, 1, 141, 0, 192, 141, 1, 192, 141, 1, 224, 169, 8, 141, 1, 32,
      162, count, 202, 208, 253>>

\* the code at 0x8000 of bank 0, JMP $8040 at 0x8040, and the vectors at the
\* end of bank 7
IrqProgram(code) ==
    Bytes(code, 0) @@ Bytes(<<76, 64, 128>>, 64)
    @@ Bytes(<<64, 128, 0, 128, 64, 128>>, 65530)

\* the wait through the request, then CLI; JMP to itself
LateClearProgram == IrqProgram(IrqSetup(48) \o <<88, 76, 22, 128>>)

\* the wait through the request, then LDA #$00; STA $2001; CLI; JMP to
\* itself: the background is hidden before the interrupts are let in
HiddenProgram ==
    IrqProgram(IrqSetup(48) \o <<169, 0, 141, 1, 32, 88, 76, 27, 128>>)

\* CLI after a short wait, before the request; JMP to itself
EarlyClearProgram == IrqProgram(IrqSetup(2) \o <<88, 76, 22, 128>>)

\* CLI; LDA #$02; STA $4014; JMP to itself: the request is made while the
\* DMA copies
IrqDmaProgram ==
    IrqProgram(IrqSetup(30) \o <<88, 169, 2, 141, 20, 64, 76, 27, 128>>)

IrqPrograms ==
    {LateClearProgram, HiddenProgram, EarlyClearProgram, IrqDmaProgram}

InitIrq ==
    \E prg \in IrqPrograms :
        \E n \in {Nes_new(Mapper4_fields(prg, 65536, 8192))} :
            /\ cpu = n.cpu
            /\ bus = n.bus
            /\ ppu = n.ppu
            /\ cart = n.cart
            /\ trap = n.trap
            /\ hist = [NoHistory EXCEPT !.input = <<prg = HiddenProgram>>]

\* the loop of Nes::tick goes round once more
IrqPass ==
    /\ trap = "none"
    /\ hist.clocks < MaxIrqCycles
    /\ hist' = [hist EXCEPT !.op = "clock", !.clocks = @ + 1]

IrqClock == IrqPass /\ \E n \in {Bus_clock(Machine)} : Becomes(n)

NextIrq == IrqClock

SpecIrq == InitIrq /\ [][NextIrq]_vars /\ WF_hist(IrqPass)

(***************************************************************************)
(* SpecFrame: the driver loop of Nes::tick (src/lib.rs), which calls       *)
(* Nes::clock while the Ppu has no frame ready and then takes the frame.   *)
(* One step is one pass of the loop or the statement after it.  The loop   *)
(* never yields, so a pass that can be made is made: weak fairness of the  *)
(* pass, which is the one step that counts a clock in the history.         *)
(***************************************************************************)
MaxFrameCycles == 30000

\* a program that polls with the NMI on, one that starts OAM DMAs in a loop
\* with the NMI on, and one that runs into the opcode 0x02 after a DMA; none
\* of them turns rendering on
FramePrograms == {PollProgram, DelayedDmaProgram, DmaProgram(0, FALSE)}

InitFrame ==
    \E prg \in FramePrograms :
        \E n \in {Nes_new(Cartridge_new(prg, NoBytes, 1, 0))} :
            /\ cpu = n.cpu
            /\ bus = n.bus
            /\ ppu = n.ppu
            /\ cart = n.cart
            /\ trap = n.trap
            /\ hist = NoHistory

\* lines 56-57: the loop takes a pass; the history counts it
TickPass ==
    /\ trap = "none"
    /\ ~ppu.is_frame_ready
    /\ bus.cycle < MaxFrameCycles
    /\ hist' = [hist EXCEPT !.op = "clock", !.clocks = @ + 1]

\* lines 56-58: one pass of the loop; a panic inside the call ends the loop
TickClock ==
    /\ TickPass
    /\ \E n \in {Bus_clock(Machine)} : Becomes(n)

\* line 59: the loop is left and the frame taken
TickReturn ==
    /\ trap = "none"
    /\ ppu.is_frame_ready
    /\ ppu' = [ppu EXCEPT !.is_frame_ready = FALSE]
    /\ hist' = [hist EXCEPT !.op = "tick"]
    /\ UNCHANGED <<cpu, bus, cart, trap>>

NextFrame == TickClock \/ TickReturn

SpecFrame == InitFrame /\ [][NextFrame]_vars /\ WF_hist(TickPass)

(***************************************************************************)
(* SpecDecode: CpuInstruction::decode called on a first opcode byte, on a  *)
(* second one and on the first again; a call on a byte without an arm      *)
(* panics and ends the run.                                                *)
(***************************************************************************)
InitDecode ==
    \E first \in 0..255, second \in 0..255 :
        /\ cpu = Cpu_new
        /\ bus = Bus_new
        /\ ppu = Ppu_new
        /\ cart = Cartridge_new(NoBytes, NoBytes, 1, 0)
        /\ trap = "none"
        /\ hist = [NoHistory EXCEPT !.inputs = <<first, second, first>>]

Decode ==
    /\ trap = "none"
    /\ Len(hist.decoded) < Len(hist.inputs)
    /\ \E instruction \in
            {CpuInstruction_decode(hist.inputs[Len(hist.decoded) + 1])} :
           /\ trap' = IF instruction = Unmapped THEN "unsupported_opcode"
                      ELSE "none"
           /\ hist' = [hist EXCEPT !.op = "decode",
                                   !.decoded = Append(@, instruction)]
    /\ UNCHANGED <<cpu, bus, ppu, cart>>

NextDecode == Decode

SpecDecode == InitDecode /\ [][NextDecode]_vars

(***************************************************************************)
(* Cartridge::new on an iNES image (src/cartridge.rs, src/mapper).  An     *)
(* image is [header, len]: its length and the bytes of it that lie in the  *)
(* 16-byte header, the only bytes whose value Cartridge::new looks at.     *)
(* A result is [kind |-> "Ok", ...], [kind |-> "Err", message] or, where   *)
(* the call does not return, [kind |-> "panic"].                           *)
(***************************************************************************)
Ok(value) == [kind |-> "Ok", value |-> value]
Err(message) == [kind |-> "Err", message |-> message]
Panic == [kind |-> "panic"]

\* "NES\x1a"
NesMagic == <<78, 69, 83, 26>>

\* RomInfo::new: header is the 16 bytes, header[i + 1] the byte at offset i
RomInfo_new(header) ==
    [uses_nes_20 |-> ~is_bit_set(header[8], 2) /\ is_bit_set(header[8], 3),
     prg_rom_blocks |-> header[5],
     chr_rom_blocks |-> header[6],
     has_persistent_prg_ram |-> is_bit_set(header[7], 1),
     has_chr_ram |-> header[6] = 0,
     mirror_flag |-> header[7] % 2,
     uses_alternate_nametable_layout |-> is_bit_set(header[7], 3),
     contains_trainer |-> is_bit_set(header[7], 2),
     mapper_id |-> (header[7] \div 16) + (header[8] - (header[8] % 16))]

\* Mapper0::new on slices of the lengths given
Mapper0_new(prg_rom_len, chr_rom_len, prg_rom_blocks, mirror_flag) ==
    IF prg_rom_blocks \in {1, 2}
    THEN Ok([mapper_id |-> 0, prg_rom_len |-> prg_rom_len,
             variant |-> IF prg_rom_blocks = 1 THEN "Nrom128" ELSE "Nrom256",
             has_chr_ram |-> chr_rom_len = 0, mirror_flag |-> mirror_flag])
    ELSE Err("not a valid block size for mapper 0")

\* Mapper1::new: prg_banks - 1 on a u8, which panics at 0 in a build with
\* overflow checks and wraps in one without
Mapper1_new(prg_rom_len, chr_rom_len, overflow_checks) ==
    LET prg_banks == (prg_rom_len \div 16384) % 256
    IN  IF prg_banks = 0 /\ overflow_checks THEN Panic
        ELSE Ok([mapper_id |-> 1, prg_rom_len |-> prg_rom_len,
                 has_chr_ram |-> chr_rom_len = 0,
                 prg_bank |-> (prg_banks + 255) % 256,
                 prg_banks |-> prg_banks])

\* Mapper4::new
Mapper4_new(prg_rom_len, chr_rom_len) ==
    Ok([mapper_id |-> 4, prg_rom_len |-> prg_rom_len,
        has_chr_ram |-> chr_rom_len = 0,
        prg_banks |-> (prg_rom_len \div 8192) % 256])

\* Cartridge::new: a slice with an end past the image panics
Cartridge_new_result(image, overflow_checks) ==
    IF image.len < 4 THEN Panic
    ELSE IF SubSeq(image.header, 1, 4) # NesMagic THEN Err("not a nes file")
    ELSE IF image.len < 16 THEN Panic
    ELSE
        LET rom_info == RomInfo_new(image.header)
            prg_rom_bytes == rom_info.prg_rom_blocks * 16 * 1024
            chr_rom_bytes == rom_info.chr_rom_blocks * 8 * 1024
        IN  IF prg_rom_bytes + 16 > image.len THEN Panic
            ELSE IF prg_rom_bytes + 16 + chr_rom_bytes > image.len THEN Panic
            ELSE CASE rom_info.mapper_id = 0 ->
                        Mapper0_new(prg_rom_bytes, chr_rom_bytes,
                                    rom_info.prg_rom_blocks,
                                    rom_info.mirror_flag)
                   [] rom_info.mapper_id = 1 ->
                        Mapper1_new(prg_rom_bytes, chr_rom_bytes,
                                    overflow_checks)
                   [] rom_info.mapper_id = 4 ->
                        Mapper4_new(prg_rom_bytes, chr_rom_bytes)
                   [] OTHER -> Err("mapper not implemented")

(***************************************************************************)
(* SpecCartridge: Cartridge::new called once on an image.                  *)
(***************************************************************************)
MaxPrgBlocks == 3
MaxChrBlocks == 1

\* lengths: none, short of the magic, short of the header, the header
\* alone, and the header with PRG and CHR blocks, with room for a trainer
ImageLengths ==
    {0, 3, 4, 15, 16}
    \cup {16 + 16384 * prg + 8192 * chr + 512 * trainer :
            prg \in 1..MaxPrgBlocks, chr \in 0..MaxChrBlocks,
            trainer \in 0..1}

\* byte 6: mirroring and trainer bits under the low mapper nibble; byte 7:
\* the high mapper nibble
Flags6 == {16 * mapper + flags : mapper \in {0, 1, 2, 4}, flags \in {0, 1, 4}}
Flags7 == {0, 16}

Images ==
    {[len |-> len,
      header |-> SubSeq(magic \o <<prg, chr, flags6, flags7,
                                   0, 0, 0, 0, 0, 0, 0, 0>>,
                        1, IF len < 16 THEN len ELSE 16)] :
        len \in ImageLengths, magic \in {NesMagic, <<78, 69, 83, 0>>},
        prg \in 0..MaxPrgBlocks, chr \in 0..MaxChrBlocks,
        flags6 \in Flags6, flags7 \in Flags7}

InitCartridge ==
    /\ cpu = Cpu_new
    /\ bus = Bus_new
    /\ ppu = Ppu_new
    /\ cart = [kind |-> "none"]
    /\ trap = "none"
    /\ \E image \in Images : hist = [NoHistory EXCEPT !.input = image]

\* Cartridge::new: cart takes the result, trap the panic
LoadCartridge ==
    /\ hist.op = "new"
    /\ \E overflow_checks \in BOOLEAN :
        \E result \in {Cartridge_new_result(hist.input, overflow_checks)} :
            /\ cart' = IF result.kind = "panic" THEN cart ELSE result
            /\ trap' = IF result.kind = "panic" THEN "panic" ELSE "none"
            /\ hist' = [hist EXCEPT !.op = "load", !.result = result]
    /\ UNCHANGED <<cpu, bus, ppu>>

NextCartridge == LoadCartridge

SpecCartridge == InitCartridge /\ [][NextCartridge]_vars

(***************************************************************************)
(* Savestate::new (src/savestate.rs) on a byte sequence.  A description is *)
(* the bytes of a sub-chunk tag, a u32 the four bytes that hold it; the    *)
(* files of the model keep every u32 they hold below 2^31.                 *)
(***************************************************************************)
\* u32::from_le_bytes
U32(bytes) ==
    bytes[1] + 256 * bytes[2] + 65536 * bytes[3] + 16777216 * bytes[4]

\* the bytes of s from offset n on
Skip(s, n) == SubSeq(s, n + 1, Len(s))

\* std::str::from_utf8 succeeds
RECURSIVE Utf8Valid(_)
Utf8Valid(s) ==
    LET Cont(i) == i <= Len(s) /\ s[i] \in 128..191
        In(i, lo, hi) == i <= Len(s) /\ s[i] \in lo..hi
    IN  IF s = <<>> THEN TRUE
        ELSE IF s[1] < 128 THEN Utf8Valid(Skip(s, 1))
        ELSE IF s[1] \in 194..223 THEN Cont(2) /\ Utf8Valid(Skip(s, 2))
        ELSE IF s[1] \in 224..239
             THEN /\ In(2, IF s[1] = 224 THEN 160 ELSE 128,
                           IF s[1] = 237 THEN 159 ELSE 191)
                  /\ Cont(3)
                  /\ Utf8Valid(Skip(s, 3))
        ELSE IF s[1] \in 240..244
             THEN /\ In(2, IF s[1] = 240 THEN 144 ELSE 128,
                           IF s[1] = 244 THEN 143 ELSE 191)
                  /\ Cont(3) /\ Cont(4)
                  /\ Utf8Valid(Skip(s, 4))
        ELSE FALSE

\* trim_end_matches('\0')
RECURSIVE TrimNul(_)
TrimNul(s) ==
    IF s # <<>> /\ s[Len(s)] = 0 THEN TrimNul(SubSeq(s, 1, Len(s) - 1)) ELSE s

\* Header::new on the 16 bytes of the file header
Header_new(bytes) ==
    [old_version |-> bytes[4],
     file_size |-> U32(SubSeq(bytes, 5, 8)),
     version |-> U32(SubSeq(bytes, 9, 12)),
     compressed_size_is_some |->
         SubSeq(bytes, 13, 16) \notin {<<0, 0, 0, 0>>, <<255, 255, 255, 255>>}]

\* Subchunk::new: the (description, section) pairs in sections, or the error
RECURSIVE Subchunk_new(_, _)
Subchunk_new(bytes, sections) ==
    IF bytes = <<>> THEN Ok(sections)
    ELSE IF Len(bytes) < 8 THEN Err("chunk header ended unexpectedly")
    ELSE LET size == U32(SubSeq(bytes, 5, 8))
             rest == Skip(bytes, 8)
         IN  IF Len(rest) < size THEN Err("chunk length doesn't match header")
             ELSE IF ~Utf8Valid(SubSeq(bytes, 1, 4))
             THEN Err("invalid chunk description")
             ELSE Subchunk_new(Skip(rest, size),
                               Append(sections,
                                      <<TrimNul(SubSeq(bytes, 1, 4)),
                                        SubSeq(rest, 1, size)>>))

\* CpuState::new: the length deserialize asks of the section of each description
CpuState_sizes ==
    <<80, 67>> :> 2 @@ <<65>> :> 1 @@ <<80>> :> 1 @@ <<88>> :> 1 @@
    <<89>> :> 1 @@ <<83>> :> 1 @@ <<68, 66>> :> 1 @@ <<82, 65, 77>> :> 2048

\* PpuState::new
PpuState_sizes ==
    <<78, 84, 65, 82>> :> 2048 @@ <<80, 82, 65, 77>> :> 32 @@
    <<83, 80, 82, 65>> :> 256 @@ <<80, 80, 85, 82>> :> 4 @@
    <<88, 79, 70, 70>> :> 1 @@ <<86, 84, 71, 76>> :> 1 @@
    <<82, 65, 68, 68>> :> 2 @@ <<84, 65, 68, 68>> :> 2 @@
    <<86, 66, 85, 70>> :> 1 @@ <<80, 71, 69, 78>> :> 1

\* ApuState::new
ApuState_sizes ==
    <<80, 83, 71>> :> 16 @@ <<69, 78, 67, 72>> :> 1 @@
    <<73, 81, 70, 77>> :> 1 @@ <<78, 82, 69, 71>> :> 2 @@
    <<84, 82, 73, 77>> :> 1 @@ <<84, 82, 73, 67>> :> 1 @@
    <<69, 48, 83, 80>> :> 1 @@ <<69, 49, 83, 80>> :> 1 @@
    <<69, 50, 83, 80>> :> 1 @@ <<69, 48, 77, 79>> :> 1 @@
    <<69, 49, 77, 79>> :> 1 @@ <<69, 50, 77, 79>> :> 1 @@
    <<69, 48, 68, 49>> :> 1 @@ <<69, 49, 68, 49>> :> 1 @@
    <<69, 50, 68, 49>> :> 1 @@ <<69, 48, 68, 86>> :> 1 @@
    <<69, 49, 68, 86>> :> 1 @@ <<69, 50, 68, 86>> :> 1 @@
    <<76, 69, 78, 48>> :> 4 @@ <<76, 69, 78, 49>> :> 4 @@
    <<76, 69, 78, 50>> :> 4 @@ <<76, 69, 78, 51>> :> 4 @@
    <<83, 87, 69, 69>> :> 2 @@ <<67, 82, 70, 49>> :> 4 @@
    <<67, 82, 70, 50>> :> 4 @@ <<83, 87, 67, 84>> :> 2

\* CpuState::new, PpuState::new and ApuState::new: the sub-chunks are read
\* in order and the first whose section has not the length of its field is
\* the error; a description without an arm is skipped
SectionState_new(sizes, bytes) ==
    With(Subchunk_new(bytes, <<>>), LAMBDA subchunk :
        IF subchunk.kind = "Err" THEN subchunk
        ELSE IF \E i \in DOMAIN subchunk.value :
                    /\ subchunk.value[i][1] \in DOMAIN sizes
                    /\ Len(subchunk.value[i][2]) # sizes[subchunk.value[i][1]]
             THEN Err("invalid section size")
             ELSE Ok([d \in {subchunk.value[i][1] : i \in DOMAIN subchunk.value}
                          \cap DOMAIN sizes |->
                        LET last == CHOOSE i \in DOMAIN subchunk.value :
                                /\ subchunk.value[i][1] = d
                                /\ \A j \in DOMAIN subchunk.value :
                                      subchunk.value[j][1] = d => j <= i
                        IN  subchunk.value[last][2]]))

\* MapperState::new
MapperState_new(bytes) == Subchunk_new(bytes, <<>>)

\* SectionChunkKind::new
SectionChunkKind_new(byte) ==
    CASE byte = 1 -> "Cpu" [] byte = 2 -> "Cpuc" [] byte = 3 -> "Ppu"
      [] byte = 4 -> "Ctlr" [] byte = 5 -> "Snd" [] byte = 16 -> "Extra"
      [] OTHER -> "Unknown"

\* the section of a kind parsed: its state for the four kinds that are
\* read, no state for the others
ParseSection(section_kind, section) ==
    CASE section_kind = "Cpu" -> SectionState_new(CpuState_sizes, section)
      [] section_kind = "Ppu" -> SectionState_new(PpuState_sizes, section)
      [] section_kind = "Snd" -> SectionState_new(ApuState_sizes, section)
      [] section_kind = "Extra" -> MapperState_new(section)
      [] OTHER -> Ok(<<>>)

\* the loop of Savestate::new over the sections and the construction that
\* follows it; states maps the kinds parsed so far to their state.
\* split_at panics when asked for more bytes than there are.
RECURSIVE ParseSections(_, _, _)
ParseSections(header, bytes, states) ==
    IF bytes = <<>>
    THEN IF "Cpu" \notin DOMAIN states THEN Err("missing cpu state")
         ELSE IF "Ppu" \notin DOMAIN states THEN Err("missing ppu state")
         ELSE IF "Snd" \notin DOMAIN states THEN Err("missing apu state")
         ELSE IF "Extra" \notin DOMAIN states THEN Err("missing mapper state")
         ELSE Ok([header |-> header, cpu_state |-> states["Cpu"],
                  ppu_state |-> states["Ppu"], apu_state |-> states["Snd"],
                  mapper_state |-> states["Extra"]])
    ELSE IF Len(bytes) < 5 THEN Panic
    ELSE LET section_kind == SectionChunkKind_new(bytes[1])
             section_size == U32(SubSeq(bytes, 2, 5))
             rest == Skip(bytes, 5)
         IN  IF section_size > Len(rest) THEN Panic
             ELSE With(ParseSection(section_kind, SubSeq(rest, 1, section_size)),
                       LAMBDA state :
                  IF state.kind = "Err" THEN state
                  ELSE ParseSections(
                           header, Skip(rest, section_size),
                           IF section_kind \in {"Cpu", "Ppu", "Snd", "Extra"}
                           THEN (section_kind :> state.value) @@ states
                           ELSE states))

\* "FCS"
FcsMagic == <<70, 67, 83>>

\* Savestate::new
Savestate_new(bytes) ==
    IF Len(bytes) < 3 \/ SubSeq(bytes, 1, 3) # FcsMagic
    THEN Err("not a savestate")
    ELSE IF Len(bytes) < 16 THEN Err("header ended unexpectedly")
    ELSE With(Header_new(SubSeq(bytes, 1, 16)), LAMBDA header :
         With(Skip(bytes, 16), LAMBDA rest :
            IF header.compressed_size_is_some
            THEN Err("savestate is compressed")
            ELSE IF Len(rest) # header.file_size
            THEN Err("file size doesn't match header")
            ELSE IF Len(rest) < 5
            THEN Err("section header ended unexpectedly")
            ELSE ParseSections(header, rest, <<>>)))

(***************************************************************************)
(* SpecSavestate: Savestate::new called once on a file: a header and up to *)
(* four sections, cut off at any length.                                   *)
(***************************************************************************)
\* the size a section declares beyond the bytes that follow it
Oversize == 1

\* a u32 in little-endian bytes
U32Bytes(n) ==
    <<n % 256, (n \div 256) % 256, (n \div 65536) % 256, n \div 16777216>>

SectionBytes(kind, size, payload) == <<kind>> \o U32Bytes(size) \o payload

ChunkBytes(description, size, data) == description \o U32Bytes(size) \o data

\* first sections: a Cpu section holding A; one whose sub-chunk declares
\* more than it holds; one whose A has two bytes; one holding an unknown
\* description; one holding a description that is no UTF-8; a Cpu section
\* that declares more than follows; a section of no known kind
FirstSections ==
    {SectionBytes(1, 9, ChunkBytes(<<65, 0, 0, 0>>, 1, <<42>>)),
     SectionBytes(1, 9, ChunkBytes(<<65, 0, 0, 0>>, 2, <<42>>)),
     SectionBytes(1, 10, ChunkBytes(<<65, 0, 0, 0>>, 2, <<42, 42>>)),
     SectionBytes(1, 9, ChunkBytes(<<90, 90, 0, 0>>, 1, <<42>>)),
     SectionBytes(1, 9, ChunkBytes(<<255, 0, 0, 0>>, 1, <<42>>)),
     SectionBytes(1, 9 + Oversize, ChunkBytes(<<65, 0, 0, 0>>, 1, <<42>>)),
     SectionBytes(9, 0, <<>>)}

Bodies ==
    {first \o second \o third \o fourth :
        first \in FirstSections,
        second \in {<<>>, SectionBytes(3, 0, <<>>)},
        third \in {<<>>, SectionBytes(5, 0, <<>>)},
        fourth \in {<<>>, SectionBytes(16, 0, <<>>),
                    SectionBytes(16, Oversize, <<>>)}}

\* the file header: magic, old version, file size, version, and the
\* compressed size or a marker of no compression
FileHeader(magic, file_size, compressed_size) ==
    magic \o <<88>> \o U32Bytes(file_size) \o U32Bytes(20606)
        \o compressed_size

Savestates ==
    {SubSeq(FileHeader(magic, file_size, compressed_size) \o body, 1, cut) :
        <<magic, compressed_size>> \in
            {FcsMagic, <<70, 67, 90>>}
            \X {<<0, 0, 0, 0>>, <<255, 255, 255, 255>>, <<7, 0, 0, 0>>},
        <<body, cut, file_size>> \in
            {t \in Bodies \X (0..48) \X (0..33) :
                /\ t[2] <= 16 + Len(t[1])
                /\ t[3] \in {IF t[2] > 16 THEN t[2] - 16 ELSE 0,
                             (IF t[2] > 16 THEN t[2] - 16 ELSE 0) + 1}}}

InitSavestate ==
    /\ cpu = Cpu_new
    /\ bus = Bus_new
    /\ ppu = Ppu_new
    /\ cart = Cartridge_new(NoBytes, NoBytes, 1, 0)
    /\ trap = "none"
    /\ \E bytes \in Savestates : hist = [NoHistory EXCEPT !.input = bytes]

\* Savestate::new: the machine is not touched
ParseSavestate ==
    /\ hist.op = "new"
    /\ \E result \in {Savestate_new(hist.input)} :
           /\ trap' = IF result.kind = "panic" THEN "panic" ELSE "none"
           /\ hist' = [hist EXCEPT !.op = "parse", !.result = result]
    /\ UNCHANGED <<cpu, bus, ppu, cart>>

NextSavestate == ParseSavestate

SpecSavestate == InitSavestate /\ [][NextSavestate]_vars

(***************************************************************************)
(* Mapper state in a savestate: serialize and deserialize                  *)
(* (src/savestate.rs), Mapper4::save_state/apply_state and                 *)
(* Mapper1::save_state/apply_state.  A description is the tuple of its     *)
(* ASCII codes.                                                            *)
(***************************************************************************)
\* serialize that writes the description as it is given
serialize_without_padding(data, description) ==
    description \o U32Bytes(Len(data)) \o data

\* serialize on the bytes value.to_bytes() gives: the description padded
\* with NUL to 4 bytes and cut to 4, the length and the bytes
serialize(data, description) ==
    SubSeq(description \o <<0, 0, 0, 0>>, 1, 4) \o U32Bytes(Len(data)) \o data

\* ToBytes for u8, for bool, and for the Vec<u8> that a sparse array of
\* length len stands for
u8_to_bytes(value) == <<value>>
bool_to_bytes(value) == <<BoolBit(value)>>
vec_to_bytes(mem, len) == [i \in 1..len |-> Peek(mem, i - 1)]

\* deserialize::<u8>(..).unwrap_or_default(), deserialize::<bool>, and
\* deserialize::<[u8; n]>
deserialize_u8(bytes) == IF Len(bytes) = 1 THEN bytes[1] ELSE 0
deserialize_bool(bytes) == IF Len(bytes) = 1 THEN bytes[1] # 0 ELSE FALSE
deserialize_array(bytes, n) == IF Len(bytes) = n THEN bytes ELSE [i \in 1..n |-> 0]

Mapper4_save_state(c) ==
    (IF c.has_chr_ram
     THEN serialize(vec_to_bytes(c.chr_rom, 8192), <<67, 72, 82, 82>>)
     ELSE <<>>)
    \o serialize(vec_to_bytes(c.prg_ram, 8192), <<87, 82, 65, 77>>)
    \o serialize([i \in 1..8 |-> c.bank_register[i - 1]], <<82, 69, 71, 83>>)
    \o serialize(u8_to_bytes(c.bank_select), <<67, 77, 68>>)
    \o serialize(u8_to_bytes(IF c.mirroring = "Vertical" THEN 0 ELSE 1),
                 <<65, 48, 48, 48>>)
    \o serialize(u8_to_bytes(c.prg_ram_protect), <<65, 48, 48, 49>>)
    \o serialize(bool_to_bytes(c.irq_reload), <<73, 82, 81, 82>>)
    \o serialize(u8_to_bytes(c.irq_counter), <<73, 82, 81, 67>>)
    \o serialize(u8_to_bytes(c.irq_latch), <<73, 82, 81, 76>>)
    \o serialize(bool_to_bytes(c.is_irq_enabled), <<73, 82, 81, 65>>)

\* one turn of the loop of Mapper4::apply_state
Mapper4_apply_section(c, description, section) ==
    CASE description = <<82, 69, 71, 83>> ->
             [c EXCEPT !.bank_register =
                 [i \in 0..7 |-> deserialize_array(section, 8)[i + 1]]]
      [] description = <<67, 77, 68>> ->
             [c EXCEPT !.bank_select = deserialize_u8(section)]
      [] description = <<65, 48, 48, 48>> ->
             [c EXCEPT !.mirroring =
                 IF deserialize_u8(section) = 0 THEN "Vertical"
                 ELSE "Horizontal"]
      [] description = <<65, 48, 48, 49>> ->
             [c EXCEPT !.prg_ram_protect = deserialize_u8(section)]
      [] description = <<73, 82, 81, 82>> ->
             [c EXCEPT !.irq_reload = deserialize_bool(section)]
      [] description = <<73, 82, 81, 67>> ->
             [c EXCEPT !.irq_counter = deserialize_u8(section)]
      [] description = <<73, 82, 81, 76>> ->
             [c EXCEPT !.irq_latch = deserialize_u8(section)]
      [] description = <<73, 82, 81, 65>> ->
             [c EXCEPT !.is_irq_enabled = deserialize_bool(section)]
      [] description = <<87, 82, 65, 77>> ->
             IF Len(section) = 8192
             THEN [c EXCEPT !.prg_ram = Bytes(section, 0)] ELSE c
      [] description = <<67, 72, 82, 82>> ->
             IF c.has_chr_ram /\ Len(section) = 8192
             THEN [c EXCEPT !.chr_rom = Bytes(section, 0)] ELSE c
      [] OTHER -> c

RECURSIVE Mapper4_apply_state(_, _)
Mapper4_apply_state(c, state) ==
    IF state = <<>> THEN c
    ELSE Mapper4_apply_state(
             Mapper4_apply_section(c, state[1][1], state[1][2]), Tail(state))

Mapper1_save_state(c) ==
    (IF c.has_chr_ram
     THEN serialize(vec_to_bytes(c.chr_rom, 8192), <<67, 72, 82, 82>>)
     ELSE <<>>)
    \o serialize(vec_to_bytes(c.prg_ram, 8192), <<87, 82, 65, 77>>)
    \o serialize(<<c.control, c.chr_bank_0, c.chr_bank_1, c.prg_bank>>,
                 <<68, 82, 69, 71>>)
    \o serialize(u8_to_bytes(c.shift), <<66, 70, 70, 82>>)
    \o serialize(u8_to_bytes(c.shift_count), <<66, 70, 82, 83>>)

\* one turn of the loop of Mapper1::apply_state
Mapper1_apply_section(c, description, section) ==
    CASE description = <<68, 82, 69, 71>> ->
             [c EXCEPT !.control = deserialize_array(section, 4)[1],
                       !.chr_bank_0 = deserialize_array(section, 4)[2],
                       !.chr_bank_1 = deserialize_array(section, 4)[3],
                       !.prg_bank = deserialize_array(section, 4)[4]]
      [] description = <<66, 70, 70, 82>> ->
             [c EXCEPT !.shift = deserialize_u8(section)]
      [] description = <<66, 70, 82, 83>> ->
             [c EXCEPT !.shift_count = deserialize_u8(section)]
      [] description = <<87, 82, 65, 77>> ->
             IF Len(section) = 8192
             THEN [c EXCEPT !.prg_ram = Bytes(section, 0)] ELSE c
      [] description = <<67, 72, 82, 82>> ->
             IF c.has_chr_ram /\ Len(section) = 8192
             THEN [c EXCEPT !.chr_rom = Bytes(section, 0)] ELSE c
      [] OTHER -> c

RECURSIVE Mapper1_apply_state(_, _)
Mapper1_apply_state(c, state) ==
    IF state = <<>> THEN c
    ELSE Mapper1_apply_state(
             Mapper1_apply_section(c, state[1][1], state[1][2]), Tail(state))

(***************************************************************************)
(* SpecMapperState: an MMC3 cartridge with CHR-ROM, or an MMC1 cartridge   *)
(* with CHR-ROM or CHR-RAM, under register writes and scanline counts; at  *)
(* any point its save_state output is parsed by MapperState::new and       *)
(* applied to a newly built mapper of the same kind, which the history     *)
(* keeps.                                                                  *)
(***************************************************************************)
MaxMmc3StateWrites == 3
MaxMmc1StateWrites == 5
MaxStateCounts == 1

\* MMC3: bank select and data, mirroring, PRG-RAM protect, IRQ latch,
\* reload and enable, and a byte of PRG-RAM.  MMC1: bits for the control
\* register, a bit 1 for each bank register, and a byte of PRG-RAM.
MapperStateWrites(mapper_id) ==
    IF mapper_id = 4
    THEN {<<32768, 70>>, <<32769, 5>>, <<40960, 1>>, <<40961, 192>>,
          <<49152, 2>>, <<49153, 0>>, <<57345, 0>>, <<24576, 90>>}
    ELSE {<<32768, 0>>, <<32768, 1>>, <<40960, 1>>, <<49152, 1>>,
          <<57344, 1>>, <<24576, 90>>}

\* the mapper Mapper4::new or Mapper1::new builds for the ROM of cartridge c
NewMapperLike(c) ==
    IF c.mapper_id = 4
    THEN Mapper4_fields(c.prg_rom, c.prg_rom_len,
                        IF c.has_chr_ram THEN 0 ELSE 8192)
    ELSE Mapper1_fields(c.prg_rom, c.prg_rom_len,
                        IF c.has_chr_ram THEN 0 ELSE 8192)

InitMapperState ==
    \E n \in {Nes_new(Mapper4_fields(Mmc3Prg, 65536, 8192)),
              Nes_new(Mapper1_fields(Mmc1Prg, 262144, 8192)),
              Nes_new(Mapper1_fields(Mmc1Prg, 262144, 0))} :
        /\ cpu = n.cpu
        /\ bus = n.bus
        /\ ppu = n.ppu
        /\ cart = n.cart
        /\ trap = n.trap
        /\ hist = NoHistory

MapperStateWrite ==
    /\ hist.writes < (IF cart.mapper_id = 4 THEN MaxMmc3StateWrites
                      ELSE MaxMmc1StateWrites)
    /\ \E w \in MapperStateWrites(cart.mapper_id) :
           \E n \in {Bus_cpu_write(Machine, w[1], w[2])} :
               /\ Becomes(n)
               /\ hist' = [hist EXCEPT !.op = "mapper_write",
                                       !.writes = @ + 1,
                                       !.result = [kind |-> "none"]]

MapperStateCount ==
    /\ hist.clocks < MaxStateCounts
    /\ \E n \in {Cartridge_count_scanline(Machine)} :
           /\ Becomes(n)
           /\ hist' = [hist EXCEPT !.op = "count_scanline",
                                   !.clocks = @ + 1,
                                   !.result = [kind |-> "none"]]

SaveAndApply ==
    /\ hist.op # "apply_state"
    /\ \E state \in {MapperState_new(IF cart.mapper_id = 4
                                     THEN Mapper4_save_state(cart)
                                     ELSE Mapper1_save_state(cart))} :
           /\ Becomes(Machine)
           /\ hist' = [hist EXCEPT
                         !.op = "apply_state",
                         !.result =
                             IF state.kind # "Ok" THEN state
                             ELSE IF cart.mapper_id = 4
                             THEN Ok(Mapper4_apply_state(NewMapperLike(cart),
                                                         state.value))
                             ELSE Ok(Mapper1_apply_state(NewMapperLike(cart),
                                                         state.value))]

NextMapperState == MapperStateWrite \/ MapperStateCount \/ SaveAndApply

SpecMapperState == InitMapperState /\ [][NextMapperState]_vars

(***************************************************************************)
(* Properties.                                                             *)
(***************************************************************************)
\* C5: every scanline other than the pre-render line is left by the 341st
\* Ppu::clock call made on it, and until then each call advances the cycle
\* by one on the same scanline.
C5_ScanlineTakes341Calls ==
    [][PpuClock =>
        IF ppu'.scanline = ppu.scanline
        THEN ppu'.cycle = ppu.cycle + 1
        ELSE ppu.scanline # 261 => hist.line_calls + 1 = 341]_vars

\* C6: the Ppu::clock call at cycle 1 of scanline 241 sets vblank and raises
\* the NMI request exactly when PPUCTRL enables it; the call at cycle 1 of
\* scanline 261 leaves vblank and sprite-zero-hit clear and frame-ready
\* set; no other call changes vblank.
C6_VblankWindow ==
    [][PpuClock =>
        /\ (ppu.scanline = 241 /\ ppu.cycle = 1) =>
              /\ vblank(ppu'.status)
              /\ ppu'.emit_nmi = (ppu.emit_nmi \/ nmi_enabled(ppu.control))
        /\ (ppu.scanline = 261 /\ ppu.cycle = 1) =>
              /\ ~vblank(ppu'.status)
              /\ ~sprite_zero_hit(ppu'.status)
              /\ ppu'.is_frame_ready
        /\ ~(ppu.cycle = 1 /\ ppu.scanline \in {241, 261}) =>
              vblank(ppu'.status) = vblank(ppu.status)]_vars

\* the registers of the programming model and the interpreter's scratch
CpuRegisters ==
    <<cpu.accumulator, cpu.x_register, cpu.y_register, cpu.program_counter,
      cpu.stack_pointer, cpu.status, cpu.absolute_address,
      cpu.operate_on_accumulator, cpu.branch_will_cross_page,
      cpu.address_will_not_cross_page, cpu.instruction_number,
      cpu.cycle_number>>

\* C4: an instruction that costs n cycles is executed whole by one
\* Cpu::clock call; the n-1 calls after it execute nothing and change no Cpu
\* register and no memory; the call after those executes the next
\* instruction.
C4_InstructionThenIdle ==
    [][CpuClock =>
        IF hist.idle_due > 0
        THEN /\ hist'.obs.opcode = -1
             /\ CpuRegisters' = CpuRegisters
             /\ bus' = bus /\ ppu' = ppu /\ cart' = cart
        ELSE /\ hist'.obs.opcode # -1
             /\ trap' = "none" => hist'.obs.cycles >= 1]_vars

C4_Witness ==
    /\ hist.op = "cpu_clock"
    /\ hist.obs.opcode = -1
    /\ hist.idle_due = 0
    /\ cpu.instruction_number >= 3

\* C8: a Cpu::clock call that fetches an opcode with no decode arm ends in
\* the unsupported-instruction panic with no register, memory, PPU or
\* cartridge change, and no call is made after it.
C8_UnmappedOpcodeIsFatal ==
    /\ [][(CpuClock /\ hist'.obs.opcode # -1
              /\ CpuInstruction_decode(hist'.obs.opcode) = Unmapped) =>
            /\ trap' = "unsupported_opcode"
            /\ CpuRegisters' = CpuRegisters
            /\ bus' = bus /\ ppu' = ppu /\ cart' = cart]_vars
    /\ [](trap # "none" => ~ENABLED NextCpu)

C8_Witness ==
    /\ trap = "unsupported_opcode"
    /\ hist.op = "cpu_clock"
    /\ CpuInstruction_decode(hist.obs.opcode) = Unmapped
    /\ cpu.instruction_number = 2

\* C10: the opcodes of the DCP, ISC, SLO, SRE, RLA and RRA families decode
\* to their family's instruction and execute without the
\* unsupported-instruction panic.
C10_CompositeFamiliesExecute ==
    LET Family ==
            [Dcp |-> {199, 215, 207, 223, 219, 195, 211},
             Isc |-> {231, 247, 239, 255, 251, 227, 243},
             Slo |-> {7, 23, 15, 31, 27, 3, 19},
             Sre |-> {71, 87, 79, 95, 91, 67, 83},
             Rla |-> {39, 55, 47, 63, 59, 35, 51},
             Rra |-> {103, 119, 111, 127, 123, 99, 115}]
    IN  \A name \in DOMAIN Family :
            hist.obs.opcode \in Family[name] =>
                /\ trap = "none"
                /\ CpuInstruction_decode(hist.obs.opcode)[1] = name

\* C9: the opcodes of the documented arms of decode are 151, two different
\* ones of them never decode to the same (mnemonic, addressing mode) pair,
\* and an opcode decoded a second time yields the pair it yielded first.
C9_DecodeUniqueAndStable ==
    /\ Cardinality(DocumentedOpcodes) = 151
    /\ \A i, j \in 1..Len(hist.decoded) :
          /\ hist.inputs[i] = hist.inputs[j] =>
                hist.decoded[i] = hist.decoded[j]
          /\ (/\ hist.inputs[i] \in DocumentedOpcodes
              /\ hist.inputs[j] \in DocumentedOpcodes
              /\ hist.inputs[i] # hist.inputs[j]) =>
                hist.decoded[i] # hist.decoded[j]

\* LDA immediate, LDA zero page and LDA immediate again have been decoded
C9_Witness ==
    /\ hist.op = "decode"
    /\ hist.inputs = <<169, 165, 169>>
    /\ hist.decoded = <<<<"Lda", "Immediate">>, <<"Lda", "ZeroPage">>,
                        <<"Lda", "Immediate">>>>

\* C1: every Bus::clock call that returns has clocked the Ppu three times
\* and left the cycle counter one higher, whether it clocked the Cpu or
\* made a DMA cycle in its place.
C1_ThreePpuClocksAndOneCycle ==
    [][(NesClock /\ trap' = "none") =>
          /\ hist'.obs.ppu_clocks = 3
          /\ bus'.cycle = bus.cycle + 1
          /\ hist'.obs.cpu_clocks = IF bus.is_dma_active THEN 0 ELSE 1]_vars

\* a call that made a DMA cycle has clocked the Ppu three times
C1_Witness ==
    /\ hist.op = "clock"
    /\ hist.dma_calls > 0
    /\ hist.obs.cpu_clocks = 0
    /\ hist.obs.ppu_clocks = 3

\* C2: a Bus::clock call that begins with the DMA active does not clock the
\* Cpu, and the call that ends a DMA is the 513th such call in a row when
\* the write to 0x4014 was made in a call with an even cycle counter, the
\* 514th when it was odd.
C2_DmaTakes513Or514Calls ==
    [][NesClock =>
          /\ bus.is_dma_active =>
                /\ hist'.obs.cpu_clocks = 0
                /\ hist'.obs.opcode = -1
                /\ CpuRegisters' = CpuRegisters
          /\ (bus.is_dma_active /\ ~bus'.is_dma_active) =>
                hist'.dma_calls =
                    IF hist.dma_trigger % 2 = 0 THEN 513 ELSE 514]_vars

\* C3: the NMI requests raised so far are the Cpu::nmi calls made so far
\* plus the request still pending; a request is pending after a call only
\* while the DMA is active; a call delivers at most once, only with the
\* DMA not active, and clears the request flag.
C3_NmiDeliveredOnce ==
    [][NesClock =>
          /\ hist'.nmi_requests = hist'.nmi_calls + BoolBit(ppu'.emit_nmi)
          /\ ppu'.emit_nmi => bus'.is_dma_active
          /\ hist'.obs.nmi_calls <= 1
          /\ hist'.obs.nmi_calls = 1 =>
                (~ppu'.emit_nmi /\ ~bus'.is_dma_active)
          /\ (hist'.obs.nmi_requests = 1 /\ ~bus'.is_dma_active) =>
                hist'.obs.nmi_calls = 1]_vars

\* a request raised during a DMA is delivered by the call that ends the DMA
C3_Witness ==
    /\ hist.op = "clock"
    /\ hist.dma_calls > 0
    /\ hist.obs.nmi_requests = 0
    /\ hist.obs.nmi_calls = 1
    /\ hist.nmi_requests = 1

\* C7: a read of the status register returns the three flags as they were
\* before it, leaves vblank clear and the write toggle at its first-write
\* state; a read made after another with no vblank entry between them
\* returns vblank clear.
C7_StatusReadClearsVblank ==
    [][NesClock =>
          \A i \in DOMAIN hist'.obs.status_reads :
              LET read == hist'.obs.status_reads[i]
              IN  /\ read.data \div 32 = read.before \div 32
                  /\ ~vblank(read.after)
                  /\ read.latch = 0
                  /\ (hist.fresh_read \/ i > 1) => ~vblank(read.data)]_vars

\* after a read that returned vblank set, and with no vblank entry since,
\* a read made with the write toggle set has returned vblank clear
C7_Witness ==
    /\ hist.op = "clock"
    /\ hist.set_reads >= 1
    /\ hist.was_fresh
    /\ Len(hist.obs.status_reads) = 1
    /\ hist.obs.status_reads[1].toggle = 1
    /\ ~vblank(hist.obs.status_reads[1].data)

\* the image is one the loader has to refuse: shorter than its header,
\* without the magic, of a mapper that is not implemented, or of mapper 0
\* with a PRG block count other than 1 and 2
MalformedImage(image) ==
    \/ image.len < 16
    \/ SubSeq(image.header, 1, 4) # NesMagic
    \/ RomInfo_new(image.header).mapper_id \notin {0, 1, 4}
    \/ /\ RomInfo_new(image.header).mapper_id = 0
       /\ RomInfo_new(image.header).prg_rom_blocks \notin {1, 2}

\* C11: Cartridge::new on an image with a malformed header, an image
\* shorter than the header, an unsupported mapper or a PRG block count
\* invalid for its mapper returns an error: it does not panic and yields
\* no cartridge.
C11_MalformedImageIsAnError ==
    (hist.op = "load" /\ MalformedImage(hist.input)) =>
        (trap = "none" /\ hist.result.kind = "Err" /\ cart.kind = "Err")

\* C12: Cartridge::new on an image whose header has the trainer bit set
\* returns an error.
C12_TrainerIsAnError ==
    (hist.op = "load" /\ hist.input.len >= 16
        /\ is_bit_set(hist.input.header[7], 2)) =>
        (trap = "none" /\ hist.result.kind = "Err")

\* C13: Savestate::new returns a parsed state or an error on every byte
\* sequence, a file cut off in a header or a section, a section larger
\* than what follows it, a file size that does not match and a compressed
\* file included: it does not panic.
C13_SavestateParseReturns ==
    hist.op = "parse" => (trap = "none" /\ hist.result.kind \in {"Ok", "Err"})

\* the byte at the stack address k pushes below stack pointer sp, that is
\* the byte push number k + 1 from sp wrote; k = -1 is the byte a pull reads
StackByte(ram, sp, k) == Peek(ram, 256 + ((sp - k + 256) % 256))

\* the word of the vector at addr, read where the Cpu reads it
VectorAt(addr) ==
    concat_bytes(Bus_cpu_read_data(Machine, addr),
                 Bus_cpu_read_data(Machine, addr + 1))

\* C14: after reset the interrupt-disable flag is set and the program
\* counter holds the reset vector, and none of the first 7 Cpu::clock calls
\* executes an instruction.
C14_ResetTakesSevenCycles ==
    /\ hist.op = "new" =>
          /\ intersects(cpu.status, FlagI)
          /\ cpu.program_counter = VectorAt(65532)
    /\ (hist.op = "cpu_clock" /\ hist.clocks <= 7) => hist.obs.opcode = -1

\* C15: Cpu::nmi pushes the high byte of the program counter, its low byte
\* and the status flags, leaves the stack pointer 3 lower and the program
\* counter at the NMI vector; the 8 Cpu::clock calls after it execute
\* nothing and the 9th executes the instruction at the vector.
C15_NmiEntry ==
    /\ [][CpuNmi =>
            /\ StackByte(bus'.ram, cpu.stack_pointer, 0) =
                   high_byte(cpu.program_counter)
            /\ StackByte(bus'.ram, cpu.stack_pointer, 1) =
                   low_byte(cpu.program_counter)
            /\ And8(StackByte(bus'.ram, cpu.stack_pointer, 2), 207) =
                   And8(cpu.status, 207)
            /\ cpu'.stack_pointer = (cpu.stack_pointer + 253) % 256
            /\ cpu'.program_counter = VectorAt(65530)]_vars
    /\ [][CpuClock =>
            /\ hist.since_nmi \in 0..7 => hist'.obs.opcode = -1
            /\ hist.since_nmi = 8 =>
                  /\ cpu.program_counter = VectorAt(65530)
                  /\ hist'.obs.opcode =
                         Bus_cpu_read_data(Machine, VectorAt(65530))]_vars

\* the 9th Cpu::clock call after the NMI has executed the handler's RTI
C15_Witness ==
    /\ hist.op = "cpu_clock"
    /\ hist.since_nmi = 9
    /\ hist.obs.opcode = 64
    /\ hist.last.cpu.program_counter = 32784

\* C16: the status byte that PHP, BRK and Cpu::nmi push has bit 5 set.
C16_PushedStatusHasBit5 ==
    [][/\ (CpuClock /\ hist'.obs.opcode = 8) =>
              is_bit_set(StackByte(bus'.ram, cpu.stack_pointer, 0), 5)
       /\ (CpuClock /\ hist'.obs.opcode = 0) =>
              is_bit_set(StackByte(bus'.ram, cpu.stack_pointer, 2), 5)
       /\ CpuNmi =>
              is_bit_set(StackByte(bus'.ram, cpu.stack_pointer, 2), 5)]_vars

\* C17: BRK at address a pushes the high and the low byte of a + 2 and a
\* status byte with Break set, leaves the program counter at the vector
\* at 0xFFFE and costs 7 cycles; an RTI executed next leaves the program
\* counter at a + 2 and the stack pointer where it was before the BRK,
\* and costs 6 cycles.
C17_BrkThenRti ==
    [][CpuClock =>
          /\ hist'.obs.opcode = 0 =>
                /\ StackByte(bus'.ram, cpu.stack_pointer, 0) =
                       high_byte(Wrap16(cpu.program_counter + 2))
                /\ StackByte(bus'.ram, cpu.stack_pointer, 1) =
                       low_byte(Wrap16(cpu.program_counter + 2))
                /\ is_bit_set(StackByte(bus'.ram, cpu.stack_pointer, 2), FlagB)
                /\ cpu'.stack_pointer = (cpu.stack_pointer + 253) % 256
                /\ cpu'.program_counter = VectorAt(65534)
                /\ hist'.obs.cycles = 7
          /\ (hist'.obs.opcode = 64 /\ hist.last.opcode = 0) =>
                /\ cpu'.program_counter =
                       Wrap16(hist.last.cpu.program_counter + 2)
                /\ cpu'.stack_pointer = hist.last.cpu.stack_pointer
                /\ hist'.obs.cycles = 6]_vars

\* an RTI executed right after a BRK has resumed two bytes past the BRK
C17_Witness ==
    /\ hist.op = "cpu_clock"
    /\ hist.obs.opcode = 64
    /\ hist.prior.opcode = 0
    /\ cpu.program_counter = hist.prior.cpu.program_counter + 2
    /\ cpu.stack_pointer = hist.prior.cpu.stack_pointer

\* C18: PLP and RTI leave in the status register the byte they pulled with
\* the Break flag cleared and every other bit, bit 5 included, as pulled.
C18_PulledStatusKeepsBit5 ==
    [][(CpuClock /\ hist'.obs.opcode \in {40, 64}) =>
          cpu'.status =
              SetBit(StackByte(bus.ram, cpu.stack_pointer, -1), FlagB, FALSE)]_vars

\* the branch of an opcode is taken on the status given
BranchTaken(opcode, status) ==
    CASE opcode = 16 -> ~intersects(status, FlagN)
      [] opcode = 48 -> intersects(status, FlagN)
      [] opcode = 80 -> ~intersects(status, FlagV)
      [] opcode = 112 -> intersects(status, FlagV)
      [] opcode = 144 -> ~intersects(status, FlagC)
      [] opcode = 176 -> intersects(status, FlagC)
      [] opcode = 208 -> ~intersects(status, FlagZ)
      [] opcode = 240 -> intersects(status, FlagZ)

\* the target of the branch at address a: the signed operand added to the
\* address of the next instruction
BranchTarget(a) ==
    Wrap16(a + 2 + AsSigned8(Bus_cpu_read_data(Machine, Wrap16(a + 1))) + 65536)

\* the branch at address a has its target in another page than the
\* instruction after it
BranchCrosses(a) == high_byte(BranchTarget(a)) # high_byte(Wrap16(a + 2))

\* C19: a branch that is not taken costs 2 cycles and goes on at the next
\* instruction, wherever its target lies; a branch taken costs 3 cycles to
\* a target in the page of the next instruction and 4 to one in another
\* page; nothing else, the branch before it included, enters the cost.
C19_BranchCycles ==
    [][(CpuClock /\ hist'.obs.opcode \in BranchOpcodes) =>
          IF BranchTaken(hist'.obs.opcode, cpu.status)
          THEN /\ cpu'.program_counter = BranchTarget(cpu.program_counter)
               /\ hist'.obs.cycles =
                      IF BranchCrosses(cpu.program_counter) THEN 4 ELSE 3
          ELSE /\ cpu'.program_counter = Wrap16(cpu.program_counter + 2)
               /\ hist'.obs.cycles = 2]_vars

\* a branch taken within the page has cost 3 cycles right after a branch
\* that was not taken, whose target lay in another page and which cost 2
C19_Witness ==
    /\ hist.op = "cpu_clock"
    /\ hist.obs.opcode \in BranchOpcodes
    /\ hist.prior.opcode \in BranchOpcodes
    /\ ~BranchTaken(hist.prior.opcode, hist.prior.cpu.status)
    /\ BranchCrosses(hist.prior.cpu.program_counter)
    /\ hist.prior.cycles = 2
    /\ BranchTaken(hist.last.opcode, hist.last.cpu.status)
    /\ ~BranchCrosses(hist.last.cpu.program_counter)
    /\ hist.last.cycles = 3

\* the instructions that read through absolute,X, absolute,Y and
\* (indirect),Y, and those that write: INC, DEC and STA
ReadAbsoluteX == {189, 188, 125, 61, 221, 93, 29, 253}
ReadAbsoluteY == {185, 190, 121, 57, 217, 89, 25, 249}
ReadIndirectY == {177, 113, 49, 209, 81, 17, 241}
WriteIndexed == (254 :> 7) @@ (222 :> 7) @@ (157 :> 5) @@ (153 :> 5) @@ (145 :> 6)

\* the word at address a and the word at zero-page address z
WordAt(a) ==
    concat_bytes(Bus_cpu_read_data(Machine, a),
                 Bus_cpu_read_data(Machine, Wrap16(a + 1)))
ZeroPageWordAt(z) ==
    concat_bytes(Bus_cpu_read_data(Machine, z),
                 Bus_cpu_read_data(Machine, (z + 1) % 256))

\* adding index to address leaves the page of address
IndexCrosses(address, index) ==
    high_byte(Wrap16(address + index)) # high_byte(address)

\* C20: a read through absolute,X or absolute,Y costs 4 cycles and one
\* through (indirect),Y 5, plus 1 when the index carries the address into
\* another page; INC and DEC absolute,X cost 7, STA absolute,X and
\* absolute,Y 5 and STA (indirect),Y 6 with and without a page crossing.
C20_IndexedCycles ==
    [][CpuClock =>
          LET opcode == hist'.obs.opcode
              operand == Wrap16(cpu.program_counter + 1)
          IN  /\ opcode \in ReadAbsoluteX =>
                    hist'.obs.cycles =
                        4 + BoolBit(IndexCrosses(WordAt(operand), cpu.x_register))
              /\ opcode \in ReadAbsoluteY =>
                    hist'.obs.cycles =
                        4 + BoolBit(IndexCrosses(WordAt(operand), cpu.y_register))
              /\ opcode \in ReadIndirectY =>
                    hist'.obs.cycles =
                        5 + BoolBit(IndexCrosses(
                                ZeroPageWordAt(Bus_cpu_read_data(Machine, operand)),
                                cpu.y_register))
              /\ opcode \in DOMAIN WriteIndexed =>
                    hist'.obs.cycles = WriteIndexed[opcode]]_vars

\* INC absolute,X has cost 7 cycles without a page crossing
C20_Witness ==
    /\ hist.op = "cpu_clock"
    /\ hist.obs.opcode = 254
    /\ hist.obs.cycles = 7
    /\ hist.last.cpu.x_register = 1
    /\ cpu.absolute_address = 17

\* C21: JMP (p) continues at the address whose low byte is the byte at p
\* and whose high byte is the byte at the start of p's page when p is the
\* last address of a page, and the byte at p + 1 otherwise.
C21_IndirectJumpWraps ==
    [][CpuClock /\ hist'.obs.opcode = 108 =>
          LET p == WordAt(Wrap16(cpu.program_counter + 1))
          IN  cpu'.program_counter =
                  concat_bytes(Bus_cpu_read_data(Machine, p),
                               Bus_cpu_read_data(Machine,
                                   IF p % 256 = 255 THEN p - 255 ELSE p + 1))]_vars

\* JMP ($80FF) has gone to 0x8140: 0x40 from 0x80FF and 0x81 from 0x8000,
\* while 0x8100 holds another byte
C21_Witness ==
    /\ hist.op = "cpu_clock"
    /\ hist.obs.opcode = 108
    /\ WordAt(Wrap16(hist.last.cpu.program_counter + 1)) = 33023
    /\ cpu.program_counter = 33088
    /\ Bus_cpu_read_data(Machine, 33024) # Bus_cpu_read_data(Machine, 32768)

\* C22: with rendering on and fine Y at 7, the vertical increment clears
\* fine Y and takes coarse Y from 29 to 0 toggling nametable Y, from 31 to 0
\* keeping nametable Y, and from any other row to the next row keeping
\* nametable Y; coarse X and nametable X are kept.
C22_CoarseYWraps ==
    [][IncrementYScroll /\ ppu.mask \in {8, 16}
          /\ (ppu.vram_addr \div 4096) % 8 = 7 =>
          LET v == ppu.vram_addr
              row == (v \div 32) % 32
              rest == v - 4096 * 7 - 32 * row
          IN  ppu'.vram_addr =
                  IF row = 29
                  THEN (IF (v \div 2048) % 2 = 0 THEN rest + 2048
                                                 ELSE rest - 2048)
                  ELSE IF row = 31 THEN rest
                  ELSE rest + 32 * (row + 1)]_vars

\* row 29 of the lower nametable with fine Y 7 has become row 0 of the
\* upper one
C22_Witness ==
    /\ hist.op = "increment_y_scroll"
    /\ ppu.mask = 8
    /\ hist.input = <<4096 * 7 + 2048 + 32 * 29 + 31>>
    /\ ppu.vram_addr = 31


\* the palette entry read at index i of 0..31
PaletteEntry(i) == ppu_read(Machine, 16128 + i)

\* the other index of the slot of index i, or i itself when it has none
PaletteTwin(i) == IF i % 4 = 0 THEN (i + 16) % 32 ELSE i

\* C23: a byte written at a palette index is read back at that index and,
\* for the indices 0x00/0x10, 0x04/0x14, 0x08/0x18 and 0x0C/0x1C, at the
\* other index of the pair; every other entry reads as before the write.
C23_PaletteMirrors ==
    [][PaletteWrite =>
          LET i == hist'.input[1] % 32
              data == hist'.input[2]
          IN  \A j \in 0..31 :
                  PaletteEntry(j)' =
                      IF j \in {i, PaletteTwin(i)} THEN data
                      ELSE PaletteEntry(j)]_vars

\* 21 written at index 0x00 and 42 at index 0x14: both are read at the
\* other index of their pairs
C23_Witness ==
    /\ hist.op = "ppu_write"
    /\ hist.input = <<16128 + 20, 42>>
    /\ PaletteEntry(0) = 21
    /\ PaletteEntry(16) = 21
    /\ PaletteEntry(4) = 42
    /\ PaletteEntry(20) = 42


\* C24: a Ppu::clock call that raises sprite-zero-hit has composed a pixel
\* whose background is opaque and whose sprite pixel comes from slot 0;
\* the sprite shifters and counters the call leaves are the ones it
\* composed from.
C24_SpriteZeroHitFromSlot0 ==
    [][SpriteClock /\ ~sprite_zero_hit(ppu.status)
                   /\ sprite_zero_hit(ppu'.status) =>
          /\ background_index(Machine)' # 0
          /\ 0 \in OpaqueSlots(ppu')]_vars


\* bit k of a controller byte: A, B, Select, Start, Up, Down, Left, Right
\* for k = 0..7
Button(controller, k) == (controller \div Pow2(k)) % 2

\* C25: after 0x4016 is written 0 while the strobe is 1, the k-th read of
\* 0x4016 (of 0x4017) since that write, for k = 1..8, returns button k - 1
\* of the first (second) controller as it was at that write; while the
\* strobe is 1 every read returns the A button of the controller.
C25_ControllerReads ==
    [][ReadController =>
          LET port == hist'.result.port
              data == hist'.result.data
              now == IF port = 16406 THEN bus.controller_1 ELSE bus.controller_2
          IN  /\ bus.controller_strobe => data = Button(now, 0)
              /\ (~bus.controller_strobe /\ hist.input # <<>>
                  /\ hist.input[port - 16403] < 8) =>
                    data = Button(hist.input[port - 16405],
                                  hist.input[port - 16403])]_vars

\* the eighth read of 0x4016 after the strobe has returned Right of the
\* controller byte 0xA5, and two reads of 0x4017 have been made in between
C25_Witness ==
    /\ hist.op = "read_controller"
    /\ hist.input = <<165, 90, 8, 2>>
    /\ hist.result = [kind |-> "read", port |-> 16406, data |-> 1]
    /\ ~bus.controller_strobe

\* a read made while the strobe is 1 has returned the A button a second time
C25_StrobeWitness ==
    /\ hist.op = "read_controller"
    /\ bus.controller_strobe
    /\ hist.reads = 2
    /\ bus.controller_1 = 165
    /\ hist.result = [kind |-> "read", port |-> 16406, data |-> 1]


\* C26: a scanline count loads the IRQ counter from the latch when the
\* counter is 0 or a reload has been requested since the last count, and
\* takes 1 from it otherwise; it leaves the mapper's IRQ flag set exactly
\* when the counter it leaves is 0 and IRQs are enabled, and hands a set
\* flag on to the bus; a register write never raises the flag.
C26_ScanlineCounter ==
    /\ [][CountScanline =>
             /\ cart'.irq_counter =
                    IF cart.irq_counter = 0 \/ hist.input.reload
                    THEN cart.irq_latch ELSE cart.irq_counter - 1
             /\ cart'.emit_irq =
                    (cart'.irq_counter = 0 /\ cart.is_irq_enabled)
             /\ cart'.is_irq_enabled = cart.is_irq_enabled
             /\ bus'.emit_irq = (bus.emit_irq \/ cart'.emit_irq)]_vars
    /\ [][Mapper4Write => (cart'.emit_irq => cart.emit_irq)]_vars

\* the counter has come down from the latch value 2 to 0 with IRQs enabled
\* and the flag is raised
C26_Witness ==
    /\ hist.op = "count_scanline"
    /\ hist.clocks = 3
    /\ cart.irq_latch = 2
    /\ cart.irq_counter = 0
    /\ cart.is_irq_enabled
    /\ cart.emit_irq
    /\ bus.emit_irq

\* C27: with 8 PRG banks of 8 KiB, in PRG mode 0 the address 0x8000 maps to
\* offset R6 * 0x2000 and 0xC000 to the second-to-last bank (offset
\* 6 * 0x2000); in PRG mode 1 0x8000 maps to the second-to-last bank and
\* 0xC000 to R6 * 0x2000, where the mode is bit 6 of the last bank-select
\* byte written and R6 the last byte written to bank register 6; the bytes
\* read at the two addresses are the first bytes of those banks.
C27_Mmc3PrgBanks ==
    LET mode == (hist.input.select \div 64) % 2
        switched == hist.input.r6 * 8192
        fixed == 6 * 8192
    IN  /\ Mapper4_map_cpu_addr(cart, 32768) = IF mode = 0 THEN switched ELSE fixed
        /\ Mapper4_map_cpu_addr(cart, 49152) = IF mode = 0 THEN fixed ELSE switched
        /\ Bus_cpu_read_data(Machine, 32768) =
               IF mode = 0 THEN hist.input.r6 + 1 ELSE 7
        /\ Bus_cpu_read_data(Machine, 49152) =
               IF mode = 0 THEN 7 ELSE hist.input.r6 + 1

\* a bank-select write for R6 in PRG mode 1 and a bank-data write of 5
\* have been made: 0xC000 shows bank 5 and 0x8000 bank 6
C27_Witness ==
    /\ hist.op = "mapper_write"
    /\ hist.writes = 3
    /\ hist.input.select = 70
    /\ hist.input.r6 = 5
    /\ cart.bank_register[6] = 5
    /\ Bus_cpu_read_data(Machine, 49152) = 6
    /\ Bus_cpu_read_data(Machine, 32768) = 7


\* the ends and the middle of the two 16 KiB windows
Mmc1Probes == {32768, 32769, 40960, 49151, 49152, 49153, 57344, 65535}

\* the PRG-ROM offset C28 gives address addr, for the PRG mode and the
\* selected bank b, in a ROM whose last bank is bank 15
Mmc1Offset(mode, b, addr) ==
    IF mode = 3
    THEN (IF addr >= 49152 THEN 15 * 16384 + (addr - 49152)
          ELSE b * 16384 + (addr - 32768))
    ELSE IF mode = 2
    THEN (IF addr >= 49152 THEN b * 16384 + (addr - 49152)
          ELSE addr - 32768)
    ELSE (b - (b % 2)) * 16384 + (addr - 32768)

\* C28: in PRG mode 3 every address of 0xC000-0xFFFF, 0xC000 included, maps
\* into the last 16 KiB bank and 0x8000-0xBFFF into bank b; in mode 2
\* 0x8000-0xBFFF maps into the first bank and 0xC000-0xFFFF into bank b; in
\* modes 0 and 1 0x8000-0xFFFF maps into the 32 KiB bank that b selects
\* with its low bit ignored.  The mode is bits 2-3 of the control register
\* and b the low four bits of the PRG bank register.
C28_Mmc1PrgBanks ==
    \A addr \in Mmc1Probes :
        Mapper1_map_cpu_addr(cart, addr) =
            Mmc1Offset((cart.control \div 4) % 4, cart.prg_bank % 16, addr)


\* C29: the mapper that MapperState::new and apply_state make of the bytes
\* save_state returned has the bank, control, mirroring and IRQ registers,
\* the serial port and the PRG-RAM of the mapper that was saved.
C29_MapperStateRoundTrip ==
    hist.op = "apply_state" =>
        /\ hist.result.kind = "Ok"
        /\ hist.result.value.prg_ram = cart.prg_ram
        /\ IF cart.mapper_id = 4
           THEN \A f \in {"bank_register", "bank_select", "mirroring",
                          "prg_ram_protect", "irq_reload", "irq_counter",
                          "irq_latch", "is_irq_enabled"} :
                    hist.result.value[f] = cart[f]
           ELSE \A f \in {"control", "chr_bank_0", "chr_bank_1", "prg_bank",
                          "shift", "shift_count"} :
                    hist.result.value[f] = cart[f]

\* an MMC3 with R6 = 5 selected in PRG mode 1 and the IRQ latch at 2 has
\* been saved and applied
C29_Witness ==
    /\ hist.op = "apply_state"
    /\ cart.mapper_id = 4
    /\ cart.bank_select = 70
    /\ cart.bank_register[6] = 5
    /\ cart.irq_latch = 2
    /\ hist.result.value.bank_select = 70
    /\ hist.result.value.bank_register[6] = 5
    /\ hist.result.value.irq_latch = 2

\* an MMC1 whose second CHR bank register was written through the serial
\* port has been saved and applied
C29_Mmc1Witness ==
    /\ hist.op = "apply_state"
    /\ cart.mapper_id = 1
    /\ cart.chr_bank_1 = 19
    /\ cart.chr_bank_0 = 0
    /\ hist.result.value.chr_bank_1 = 19



\* C30: in every run of the driver loop of Nes::tick the Ppu gets to mark a
\* frame as ready, whatever the program does with OAM DMA, rendering and
\* interrupts.
C30_FrameBecomesReady == <>ppu.is_frame_ready

\* the loop ends in every run: with a frame ready or with a panic
FrameReadyOrPanic == <>(ppu.is_frame_ready \/ trap # "none")

\* the first Nes::tick has returned after OAM DMAs and NMIs
FrameTaken ==
    /\ hist.op = "tick"
    /\ hist.clocks > 29000


\* the scanlines a sprite with OAM byte y shows on: y + 1 to y + height
SpriteCovers(y, height, line) == y + 1 <= line /\ line <= y + height

\* the OAM indices, in ascending order, of the sprites of Ppu p that cover
\* the scanline after the one p is on
RECURSIVE CoveringFrom(_, _)
CoveringFrom(p, sprite) ==
    IF sprite > 63 THEN <<>>
    ELSE (IF SpriteCovers(p.oam[sprite * 4],
                          IF sprite_size(p.control) = 0 THEN 8 ELSE 16,
                          p.scanline + 1)
          THEN <<sprite>> ELSE <<>>) \o CoveringFrom(p, sprite + 1)

\* C32: on a visible scanline the Ppu::clock call at cycle 64 leaves the
\* secondary OAM all 0xFF and the sprite count 0; the call at cycle 257
\* leaves in it, slot by slot, the four bytes of the first min(8, k) of the
\* k sprites covering the next scanline, in OAM order, the other slots at
\* 0xFF and the count at min(8, k); the count is never above 8.
C32_SpriteEvaluation ==
    /\ [][EvaluateClock /\ ppu.scanline <= 239 /\ ppu.cycle = 64 =>
            /\ ppu'.secondary_oam = [k \in 0..31 |-> 255]
            /\ ppu'.secondary_oam_sprite_count = 0]_vars
    /\ [][EvaluateClock /\ ppu.scanline <= 239 /\ ppu.cycle = 257 =>
            \E covering \in {CoveringFrom(ppu, 0)} :
                \E n \in {IF Len(covering) < 8 THEN Len(covering) ELSE 8} :
                    /\ ppu'.secondary_oam_sprite_count = n
                    /\ \A k \in 0..31 :
                           ppu'.secondary_oam[k] =
                               IF k \div 4 < n
                               THEN ppu.oam[covering[(k \div 4) + 1] * 4 + (k % 4)]
                               ELSE 255]_vars
    /\ [][ppu'.secondary_oam_sprite_count <= 8]_vars

\* an evaluation has kept the first eight of ten covering sprites, the
\* eighth slot holding sprite 40
C32_Witness ==
    /\ ppu.cycle = 258
    /\ ppu.scanline = 3
    /\ ppu.secondary_oam_sprite_count = 8
    /\ ppu.secondary_oam[31] = 120
    /\ ppu.secondary_oam[3] = 3

\* an evaluation has found two of the three stepped sprites
C32_PartWitness ==
    /\ ppu.cycle = 258
    /\ ppu.oam[4] = 1
    /\ ppu.secondary_oam_sprite_count = 2
    /\ ppu.secondary_oam[8] = 255


\* a Bus::clock call of the DMA after its wait: the call reads on an even
\* bus cycle and writes on an odd one
DmaReads == bus.is_dma_active /\ ~bus.dma_dummy /\ bus.cycle % 2 = 0
DmaWrites == bus.is_dma_active /\ ~bus.dma_dummy /\ bus.cycle % 2 = 1

\* a read call takes the byte of the page at the OAM address and leaves the
\* OAM alone; a write call stores that byte at the OAM address and moves
\* the address on; the DMA ends in the write call that wraps the address
DmaAlternates ==
    /\ [][DmaClock /\ DmaReads =>
            /\ bus'.dma_data = DmaPageByte(ppu.oam_addr)
            /\ ppu'.oam = ppu.oam
            /\ ppu'.oam_addr = ppu.oam_addr
            /\ bus'.is_dma_active]_vars
    /\ [][DmaClock /\ DmaWrites =>
            /\ ppu'.oam = [ppu.oam EXCEPT ![ppu.oam_addr] = bus.dma_data]
            /\ ppu'.oam_addr = (ppu.oam_addr + 1) % 256
            /\ bus'.is_dma_active = (ppu'.oam_addr # 0)]_vars
    /\ [][DmaClock /\ bus.is_dma_active /\ ~bus'.is_dma_active =>
            DmaWrites /\ ppu'.oam_addr = 0]_vars

\* when the DMA ends the OAM holds the bytes of the page from the OAMADDR
\* written before the DMA to the end of the page, and nothing else
DmaCopiesFromOamAddr ==
    [][DmaClock /\ bus.is_dma_active /\ ~bus'.is_dma_active =>
          \A i \in 0..255 :
              ppu'.oam[i] = IF i >= hist.input[1] THEN DmaPageByte(i) ELSE 0]_vars

\* C33: the calls of an OAM DMA read a byte of the page and write it to
\* the OAM in turns, the DMA ends when the OAM address wraps to 0, and the
\* OAM then holds the 256 bytes of the page, whatever OAMADDR was written
\* before the DMA.
C33_DmaCopiesPage ==
    /\ DmaAlternates
    /\ [][DmaClock /\ bus.is_dma_active /\ ~bus'.is_dma_active =>
            \A i \in 0..255 : ppu'.oam[i] = DmaPageByte(i)]_vars


\* the temporary VRAM address fits in 15 bits
TempVramAddrFits == ppu.temp_vram_addr <= 32767

\* C34: the current and the temporary VRAM address are at most 0x7FFF
\* after every register write, PPUDATA access and Ppu::clock call.
C34_VramAddressesFit == ppu.vram_addr <= 32767 /\ ppu.temp_vram_addr <= 32767


\* the byte the Cpu reads at an address of the cartridge or of the RAM
ByteAt(address) == Cpu_read(Machine, address).ret

\* Cpu::clock is about to execute the opcode at the address
AboutToExecute(address, opcode) ==
    /\ trap = "none"
    /\ hist.clocks < MaxWrapClocks
    /\ cpu.cycle_wait = 0
    /\ cpu.program_counter = address
    /\ ByteAt(address) = opcode

\* what the instructions at the end of the address space do when every sum
\* wraps: NOP at 0xFFFF leads to 0x0000; LDA # at 0xFFFE takes its operand
\* at 0xFFFF and leads to 0x0000; LDA absolute at 0xFFFE takes the word at
\* 0xFFFF and 0x0000 and leads to 0x0001; BRK at 0xFFFF pushes 0x0001 and
\* jumps through the vector; RTS that pulls 0xFFFF leads to 0x0000
CompletesWrapped ==
    /\ AboutToExecute(65535, 234) => cpu'.program_counter = 0
    /\ AboutToExecute(65534, 169) =>
           cpu'.program_counter = 0 /\ cpu'.accumulator = ByteAt(65535)
    /\ AboutToExecute(65534, 173) =>
           /\ cpu'.program_counter = 1
           /\ cpu'.accumulator = ByteAt(concat_bytes(ByteAt(65535), ByteAt(0)))
    /\ AboutToExecute(65535, 0) =>
           /\ cpu'.program_counter = concat_bytes(ByteAt(65534), ByteAt(65535))
           /\ Peek(bus'.ram, 256 + cpu.stack_pointer) = 0
           /\ Peek(bus'.ram, 255 + cpu.stack_pointer) = 1
    /\ (/\ AboutToExecute(cpu.program_counter, 96)
        /\ ByteAt(257 + cpu.stack_pointer) = 255
        /\ ByteAt(258 + cpu.stack_pointer) = 255) => cpu'.program_counter = 0

PassesTheEnd ==
    \/ \E opcode \in {234, 0} : AboutToExecute(65535, opcode)
    \/ \E opcode \in {169, 173} : AboutToExecute(65534, opcode)
    \/ /\ AboutToExecute(cpu.program_counter, 96)
       /\ ByteAt(257 + cpu.stack_pointer) = 255
       /\ ByteAt(258 + cpu.stack_pointer) = 255

\* In a build without overflow checks the instructions at the end of the
\* address space complete with wrapped values.
UncheckedBuildWraps ==
    [][~hist.input[1] => (trap' = "none" /\ CompletesWrapped)]_vars

\* In a build with overflow checks each of them panics.
CheckedBuildPanics ==
    [][(hist.input[1] /\ PassesTheEnd) => trap' = "overflow"]_vars

\* An instruction that passes no end of the address space completes in
\* both builds.
NoPanicWithoutOverflow ==
    [][AboutToExecute(32771, 169) =>
           (trap' = "none" /\ cpu'.accumulator = 66)]_vars

\* C35: all program-counter and address arithmetic of the Cpu wraps modulo
\* 2^16 and never traps: an opcode or operand fetched at 0xFFFF, BRK at
\* 0xFFFF, RTS with the pulled return address 0xFFFF and a 16-bit read at
\* 0xFFFF complete with wrapped values.
C35_AddressArithmeticWraps ==
    [][PassesTheEnd => (trap' = "none" /\ CompletesWrapped)]_vars


\* the Cpu is in the IRQ handler
IrqTaken == cpu.program_counter = IrqHandler

\* the Cpu lets interrupts in and no DMA holds it
IrqAdmitted == ~intersects(cpu.status, FlagI) /\ ~bus.is_dma_active

\* A request that Cartridge::count_scanline hands to the Bus while a DMA is
\* active stays on the Bus until the DMA has ended.
RequestKeptThroughDma ==
    [][(bus.emit_irq /\ bus'.is_dma_active) => bus'.emit_irq]_vars

\* When the scanline counts go on the Cpu is in the handler in the end: a
\* later count raises a new request.
IrqTakenWhileCounting ==
    (~hist.input[1] /\ cart.emit_irq /\ cart.is_irq_enabled) ~> IrqTaken

\* While the background and the sprites are hidden the Ppu counts no
\* scanline, so that no request reaches the Bus: the run of HiddenProgram
\* stays as it is for as long as the loop goes on.
NoRequestWhileHidden ==
    [][(ppu.mask = 0 /\ ~bus.emit_irq) =>
           (~bus'.emit_irq /\ cart'.irq_counter = cart.irq_counter)]_vars

Mmc1Registers == <<cart.control, cart.chr_bank_0, cart.chr_bank_1, cart.prg_bank>>

\* the register an address selects: 1 control, 2 CHR bank 0, 3 CHR bank 1,
\* 4 PRG bank
Mmc1Selected(addr) == ((addr - 32768) \div 8192) + 1

\* five bits as a number, the first one the least significant
FiveBits(bits) ==
    bits[1] + 2 * bits[2] + 4 * bits[3] + 8 * bits[4] + 16 * bits[5]

\* C37: the shift count of the MMC1 serial port is between 0 and 4 between
\* writes; a write with bit 7 set resets the count and changes no register;
\* the fifth write in a row with bit 7 clear stores the five bits 0
\* written, the first as the least significant, in the register its
\* address selects and resets the count; the first four change no register.
C37_SerialPort ==
    /\ [](cart.shift_count \in 0..4 /\ cart.shift_count = Len(hist.inputs))
    /\ [][hist'.input[2] >= 128 =>
            /\ cart'.shift_count = 0
            /\ Mmc1Registers' = Mmc1Registers]_vars
    /\ [][(hist'.input[2] < 128 /\ Len(hist.inputs) < 4) =>
            /\ cart'.shift_count = Len(hist.inputs) + 1
            /\ Mmc1Registers' = Mmc1Registers]_vars
    /\ [][(hist'.input[2] < 128 /\ Len(hist.inputs) = 4) =>
            /\ cart'.shift_count = 0
            /\ Mmc1Registers' =
                   [Mmc1Registers EXCEPT
                       ![Mmc1Selected(hist'.input[1])] =
                           FiveBits(Append(hist.inputs, hist'.input[2] % 2))]]_vars

\* the bits 0, 0, 1, 1, 0 with the fifth written at 0x8000, then the bits
\* 1, 0, 1, 1, 0 with the fifth written at 0xC000: the control register
\* holds 0x0C and CHR bank 1 holds 13
C37_Witness ==
    /\ hist.writes = 10
    /\ hist.input = <<49152, 0>>
    /\ hist.inputs = <<>>
    /\ cart.chr_bank_1 = 13
    /\ cart.control = 12
    /\ cart.shift_count = 0


\* The window 0xE000-0xFFFF, and the window of R6 or of R7 while the
\* register holds the number of a bank the ROM has, translate to offsets
\* inside the PRG-ROM.
BanksOfTheRomInRange ==
    \A addr \in BankProbes :
        (\/ addr >= 57344
         \/ /\ cart.bank_register[6] < cart.prg_banks
            /\ cart.bank_register[7] < cart.prg_banks)
            => Mapper4_map_cpu_addr(cart, addr) < cart.prg_rom_len

\* C38: for every value written to the MMC3 bank registers and bank-select
\* register and every CPU address in 0x8000-0xFFFF the translated PRG
\* offset is smaller than the PRG-ROM length, so that no cartridge read
\* indexes outside the PRG-ROM.
C38_PrgOffsetInRange ==
    /\ \A addr \in BankProbes :
           Mapper4_map_cpu_addr(cart, addr) < cart.prg_rom_len
    /\ trap # "index_out_of_bounds"


\* the number of sprites the evaluation selected for the scanline the Ppu
\* is on: those of the scanline before, at most 8
SelectedForLine(p) ==
    With(Len(CoveringFrom([p EXCEPT !.scanline = @ - 1], 0)),
         LAMBDA k : IF k < 8 THEN k ELSE 8)

\* the Ppu::clock call draws a pixel of the picture
DrawsPixel == ppu.scanline <= 239 /\ ppu.cycle \in 1..256

\* With the other OAM contents, where a slot that is not loaded again held
\* a sprite left of X = 249, whose pattern the 256 shifts of a scanline
\* have emptied, no slot past the selected ones supplies an opaque pixel.
SlotsPastSelectedWhenShiftedOut ==
    [][(EvaluateClock /\ DrawsPixel /\ ppu.oam # EdgeOam) =>
          \A i \in OpaqueSlots(ppu') : i < SelectedForLine(ppu)]_vars

\* C39: on a scanline for which n < 8 sprites were selected the slots n to
\* 7 supply no opaque sprite pixel: what an earlier scanline left in them
\* is neither drawn nor takes part in sprite-zero-hit.
C39_UnselectedSlotsTransparent ==
    [][(EvaluateClock /\ DrawsPixel) =>
          \A i \in OpaqueSlots(ppu') : i < SelectedForLine(ppu)]_vars


\* the step is a write to the register, or a read of it
WritesRegister(register) == hist'.op = "write" /\ hist'.input[1] = register
ReadsRegister(register) == hist'.op = "read" /\ hist'.input[1] = register

\* C40: the write toggle is one latch of two states shared by PPUSCROLL and
\* PPUADDR: each write to either flips it; a PPUADDR write in the second
\* state, and no other write to the two, copies the temporary VRAM address
\* into the current one; a PPUSTATUS read puts it in the first state; no
\* other register access and no Ppu::clock call changes it.
C40_WriteToggle ==
    /\ [](ppu.addr_latch \in {0, 1})
    /\ [][(WritesRegister(5) \/ WritesRegister(6)) =>
            ppu'.addr_latch = 1 - ppu.addr_latch]_vars
    /\ [][(WritesRegister(6) /\ ppu.addr_latch = 1) =>
            ppu'.vram_addr = ppu'.temp_vram_addr]_vars
    /\ [][(WritesRegister(5) \/ (WritesRegister(6) /\ ppu.addr_latch = 0)) =>
            ppu'.vram_addr = ppu.vram_addr]_vars
    /\ [][ReadsRegister(2) => ppu'.addr_latch = 0]_vars
    /\ [][~(WritesRegister(5) \/ WritesRegister(6) \/ ReadsRegister(2)) =>
            ppu'.addr_latch = ppu.addr_latch]_vars

\* PPUADDR has been written twice, 0x21 then 0xFF, after a PPUSCROLL write
\* and a PPUSTATUS read: the current address is the temporary one, 0x21FF
C40_Witness ==
    /\ hist.input = <<6, 255>>
    /\ hist.op = "write"
    /\ hist.writes = 3
    /\ hist.reads = 1
    /\ ppu.fine_x_scroll = 5
    /\ ppu.addr_latch = 0
    /\ ppu.vram_addr = 8703
    /\ ppu.temp_vram_addr = 8703

\* a PPUSCROLL write has flipped the toggle and a later data access and a
\* clock have left it in the second state, the two addresses differing
C40_SecondStateWitness ==
    /\ ppu.addr_latch = 1
    /\ hist.op = "clock"
    /\ hist.reads > 0
    /\ ppu.temp_vram_addr # ppu.vram_addr

=============================================================================
